---- MODULE Spec2Model ----
(***************************************************************************)
(* Model of vibe-overlord's generation pipeline: the AST validator         *)
(* (ast-validator.ts), the regex validator (security.ts), the MDX          *)
(* auto-fixer (mdx-auto-fixer.ts) and the self-healing orchestrator        *)
(* generateComponent (index.ts).                                           *)
(*                                                                         *)
(* A source text is modelled by its syntax tree: the validator and the     *)
(* auto-fixer both parse the text with @babel/parser and work on the tree. *)
(* Strings that the code inspects by prefix (import sources) are sequences *)
(* of one-character strings.                                               *)
(***************************************************************************)
EXTENDS Integers, Sequences, FiniteSets, TLC

VARIABLES
    pc,                 \* position of the run inside generateComponent
    cfg,                \* finalConfig
    spec,               \* let spec (the ComponentSpec of two-phase generation)
    mdxSource,          \* let mdxSource
    validationResult,   \* let validationResult
    retryValidation,    \* const retryValidation (bundle retry)
    retryCount,         \* let retryCount (validation retry loop)
    bundleRetryCount,   \* let bundleRetryCount
    bundleSuccess,      \* let bundleSuccess
    processedMdxSource, \* let processedMdxSource (what bundleMDX receives)
    errorMessage,       \* const errorMessage of the latest catch (bundleError)
    lastPrompt,         \* the prompt of the latest getMdxFromLlm call
    outcome,            \* what generateComponent returned or threw
    genCalls,           \* history: number of getMdxFromLlm calls
    compileCalls,       \* history: number of bundleMDX calls
    valRegens,          \* history: getMdxFromLlm calls made by the validation loop
    bundleRegens,       \* history: getMdxFromLlm calls made by the bundle loop
    allErrors,          \* history: every validation error reported during the run
    firstReport,        \* history: "valid" or "invalid", the first validation report
    bundleLog,          \* history: what each bundleMDX call resolved or threw
    fixResult,          \* the AutoFixResult returned to a direct caller of autoFixMdx
    fixThrows,          \* whether a transformation step of that call throws
    current,            \* the generateComponent invocation that is executing
    suspended,          \* the bindings of the invocations waiting at an await
    script,             \* what the collaborators answer to each invocation
    rateLimiter,        \* a RateLimiter: its config and its requests Map
    now,                \* Date.now()
    limiterCalls        \* history: the isAllowed calls made and what they returned

vars == <<pc, cfg, spec, mdxSource, validationResult, retryValidation, retryCount,
          bundleRetryCount, bundleSuccess, processedMdxSource, errorMessage,
          lastPrompt, outcome, genCalls, compileCalls, valRegens, bundleRegens,
          allErrors, firstReport, bundleLog, fixResult, fixThrows,
          current, suspended, script, rateLimiter, now, limiterCalls>>

\* the variables of a direct call of autoFixMdx
fixerVars == <<fixResult, fixThrows>>

\* autoFixMdx has not been called directly
NoFix == fixResult = [undefined |-> TRUE] /\ fixThrows = FALSE

\* the variables of concurrent invocations
requestVars == <<current, suspended, script>>

\* a single invocation: nothing is suspended and no answers are fixed
NoRequests == current = 1 /\ suspended = <<>> /\ script = <<>>

\* the variables of the rate limiter
limiterVars == <<rateLimiter, now, limiterCalls>>

\* no rate limiter is constructed
NoLimiter == rateLimiter = [undefined |-> TRUE] /\ now = 0 /\ limiterCalls = <<>>

----------------------------------------------------------------------------
(* Strings and sequences *)

Min(a, b) == IF a <= b THEN a ELSE b

\* String.prototype.startsWith
StartsWith(s, p) == Len(p) <= Len(s) /\ SubSeq(s, 1, Len(p)) = p

\* String.prototype.endsWith
EndsWith(s, p) == Len(p) <= Len(s) /\ SubSeq(s, Len(s) - Len(p) + 1, Len(s)) = p

\* Array.prototype.some over a sequence
Some(seq, P(_)) == \E i \in 1..Len(seq) : P(seq[i])

RECURSIVE Concat(_)
\* Flattens a sequence of sequences
Concat(ss) == IF ss = <<>> THEN <<>> ELSE Head(ss) \o Concat(Tail(ss))

\* The elements of a sequence
Range(seq) == {seq[i] : i \in 1..Len(seq)}

S_react == <<"r","e","a","c","t">>
S_reactDom == <<"r","e","a","c","t","-","d","o","m">>
S_reactJsx == <<"r","e","a","c","t","/","j","s","x","-","r","u","n","t","i","m","e">>
S_reactive == <<"r","e","a","c","t","i","v","e">>
S_relUtils == <<".","/","u","t","i","l","s">>
S_aliasUi == <<"@","/","u","i">>
S_fs == <<"f","s">>
S_lodash == <<"l","o","d","a","s","h">>
S_lodashGet == <<"l","o","d","a","s","h","/","g","e","t">>
S_lodashStar == <<"l","o","d","a","s","h","*">>
S_compAlias == <<"c","o","m","p">>
S_compBtn == <<"c","o","m","p","/","b","t","n">>

----------------------------------------------------------------------------
(* Syntax trees (the @babel/types nodes the code inspects).                *)
(* Every node is [type, name, str, kids]:                                   *)
(*   name  an identifier, element or attribute name, or a declaration kind *)
(*   str   a string value the code inspects by content (import source)     *)
(*   kids  the child nodes in traversal order                               *)

Node(type, name, str, kids) == [type |-> type, name |-> name, str |-> str, kids |-> kids]

Id(name) == Node("Identifier", name, <<>>, <<>>)
Str(tag) == Node("StringLiteral", tag, <<>>, <<>>)
Num(tag) == Node("NumericLiteral", tag, <<>>, <<>>)
\* import <local> from '<source>'   (local = "" for a side-effect import)
ImportDecl(local, source) == Node("ImportDeclaration", local, source, <<>>)
\* callee(args...)
Call(callee, args) == Node("CallExpression", "", <<>>, <<callee>> \o args)
\* new callee(args...)
New(callee, args) == Node("NewExpression", "", <<>>, <<callee>> \o args)
\* the callee of a dynamic import(...)
ImportCallee == Node("Import", "", <<>>, <<>>)
\* object.property
Member(object, property) == Node("MemberExpression", "", <<>>, <<object, Id(property)>>)
\* left = right
Assign(left, right) == Node("AssignmentExpression", "", <<>>, <<left, right>>)
ExprStmt(e) == Node("ExpressionStatement", "", <<>>, <<e>>)
Return(e) == Node("ReturnStatement", "", <<>>, <<e>>)
Block(stmts) == Node("BlockStatement", "", <<>>, stmts)
\* (params...) => body ; the body is the last child
Arrow(params, body) == Node("ArrowFunctionExpression", "", <<>>, params \o <<body>>)
\* kind name = init;
VarDecl(kind, name, init) ==
    Node("VariableDeclaration", kind, <<>>,
         <<Node("VariableDeclarator", "", <<>>, <<Id(name), init>>)>>)
\* export <declaration>
Export(decl) == Node("ExportNamedDeclaration", "", <<>>, <<decl>>)
\* name=value inside an opening element
Attr(name, value) == Node("JSXAttribute", name, <<>>, <<value>>)
JsxExpr(e) == Node("JSXExpressionContainer", "", <<>>, <<e>>)
\* <name attrs...>children...</name>
Jsx(name, attrs, children) ==
    Node("JSXElement", "", <<>>,
         <<Node("JSXOpeningElement", name, <<>>, attrs)>> \o children)
Program(body) == Node("Program", "", <<>>, body)

\* A source text: optional frontmatter block, then code.  parseable = FALSE
\* stands for a text @babel/parser rejects (body is then what the text
\* would have been without its syntax error).
Source(hasFm, fm, parseable, body) ==
    [hasFm |-> hasFm, fm |-> fm, parseable |-> parseable, ast |-> Program(body)]

RECURSIVE Walk(_, _)
\* @babel/traverse: the nodes in visiting (pre-)order, each with its parent's type
Walk(node, parentType) ==
    <<[node |-> node, parent |-> parentType]>>
    \o Concat([i \in 1..Len(node.kids) |-> Walk(node.kids[i], node.type)])

----------------------------------------------------------------------------
(* ast-validator.ts *)

\* One finding: the message's fixed text and the value interpolated into it
Msg(text, arg) == [text |-> text, arg |-> arg]

isAllowedImportNoAllowList(source, config) ==
    \/ StartsWith(source, <<".">>) \/ StartsWith(source, <<"/">>)
    \/ StartsWith(source, <<"@", "/">>)
    \/ StartsWith(source, <<"~", "/">>)
    \/ StartsWith(source, <<"#", "/">>)
    \/ \E alias \in config.aliases : StartsWith(source, alias)

\* function isAllowedImport(source, config)
isAllowedImport(source, config) ==
    \* relative imports
    \/ StartsWith(source, <<".">>) \/ StartsWith(source, <<"/">>)
    \* common path aliases
    \/ StartsWith(source, <<"@", "/">>)
    \/ StartsWith(source, <<"~", "/">>)
    \/ StartsWith(source, <<"#", "/">>)
    \* config.allowedImports.some(...)
    \/ Some(config.allowedImports,
            LAMBDA allowed :
                IF EndsWith(allowed, <<"*">>)
                THEN StartsWith(source, SubSeq(allowed, 1, Len(allowed) - 1))
                ELSE source = allowed \/ StartsWith(source, allowed \o <<"/">>))
    \* Object.keys(config.aliases)
    \/ \E alias \in config.aliases : StartsWith(source, alias)
    \* everything else, node built-ins included: return false

\* ImportDeclaration(path)
ImportDeclarationErrors(v, config) ==
    IF ~isAllowedImport(v.node.str, config)
    THEN <<Msg("Forbidden import", v.node.str)>>
    ELSE <<>>

CallExpressionErrorsNoEval(v) ==
    LET callee == v.node.kids[1]
        calls(n) == callee.type = "Identifier" /\ callee.name = n
    IN  (IF calls("Function")
            THEN <<Msg("Use of Function constructor is forbidden", <<>>)>> ELSE <<>>)
        \o (IF calls("require")
            THEN <<Msg("Use of require() is forbidden - use ES6 imports instead", <<>>)>>
            ELSE <<>>)
        \o (IF calls("fetch")
            THEN <<Msg("Direct fetch() calls are forbidden - use provided utility functions instead", <<>>)>>
            ELSE <<>>)

\* CallExpression(path): path.node is a CallExpression, so the
\* t.isNewExpression(path.node) test of the XMLHttpRequest check is evaluated
\* on a CallExpression node
CallExpressionErrors(v) ==
    LET callee == v.node.kids[1]
        calls(n) == callee.type = "Identifier" /\ callee.name = n
    IN  (IF calls("eval")
            THEN <<Msg("Use of eval() is forbidden", <<>>)>> ELSE <<>>)
        \o (IF calls("Function")
            THEN <<Msg("Use of Function constructor is forbidden", <<>>)>> ELSE <<>>)
        \o (IF calls("require")
            THEN <<Msg("Use of require() is forbidden - use ES6 imports instead", <<>>)>>
            ELSE <<>>)
        \o (IF calls("fetch")
            THEN <<Msg("Direct fetch() calls are forbidden - use provided utility functions instead", <<>>)>>
            ELSE <<>>)
        \o (IF v.node.type = "NewExpression" /\ calls("XMLHttpRequest")
            THEN <<Msg("XMLHttpRequest is forbidden - use provided utility functions instead", <<>>)>>
            ELSE <<>>)

\* MemberExpression(path): the errors.push calls
MemberExpressionErrors(v) ==
    LET object == v.node.kids[1]
        property == v.node.kids[2]
        objIs(n) == object.type = "Identifier" /\ object.name = n
        propIs(n) == property.type = "Identifier" /\ property.name = n
        assigned == v.parent = "AssignmentExpression"
    IN  (IF objIs("process")
            THEN <<Msg("Access to process object is forbidden", <<>>)>> ELSE <<>>)
        \o (IF objIs("global")
            THEN <<Msg("Access to global object is forbidden", <<>>)>> ELSE <<>>)
        \o (IF objIs("window") /\ propIs("location") /\ assigned
            THEN <<Msg("Direct window.location manipulation is forbidden", <<>>)>>
            ELSE <<>>)
        \o (IF objIs("document") /\ propIs("cookie")
            THEN <<Msg("Direct cookie manipulation is forbidden", <<>>)>> ELSE <<>>)
        \o (IF (propIs("innerHTML") \/ propIs("outerHTML")) /\ assigned
            THEN <<Msg("Assignment to property is forbidden - use React rendering instead",
                       <<property.name>>)>>
            ELSE <<>>)

\* MemberExpression(path): the warnings.push call
MemberExpressionWarnings(v) ==
    LET object == v.node.kids[1]
    IN  IF object.type = "Identifier" /\ object.name \in {"localStorage", "sessionStorage"}
        THEN <<Msg("Use of storage detected - ensure this is necessary for your use case",
                   <<object.name>>)>>
        ELSE <<>>

\* JSXAttribute(path)
JSXAttributeWarnings(v) ==
    IF v.node.name = "dangerouslySetInnerHTML"
    THEN <<Msg("Use of dangerouslySetInnerHTML detected - ensure content is properly sanitized", <<>>)>>
    ELSE <<>>

\* String.prototype.toLowerCase on the element names of the model
ToLowerCase(name) ==
    CASE name = "DIV" -> "div"
      [] name = "Div" -> "div"
      [] name = "Span" -> "span"
      [] OTHER -> name

\* JSXOpeningElement(path)
JSXOpeningElementWarnings(v) ==
    LET elementName == v.node.name
        has(names) == Some(v.node.kids,
                           LAMBDA attr : attr.type = "JSXAttribute" /\ attr.name \in names)
    IN  (IF /\ ToLowerCase(elementName) \in {"div", "span"}
            /\ has({"onClick"})
            /\ ~has({"onKeyDown", "onKeyPress"})
            /\ ~has({"role"})
         THEN <<Msg("element with onClick should have keyboard handler or role attribute for accessibility",
                    <<elementName>>)>>
         ELSE <<>>)
        \o (IF elementName = "img" /\ ~has({"alt"})
            THEN <<Msg("<img> elements should have alt attribute for accessibility", <<>>)>>
            ELSE <<>>)
        \o (IF elementName \in {"input", "textarea", "select"}
               /\ ~has({"aria-label", "aria-labelledby"})
            THEN <<Msg("element should have aria-label or be associated with a <label> for accessibility",
                       <<elementName>>)>>
            ELSE <<>>)

\* what the visitors push to errors when the traversal enters one node
VisitErrors(v, config) ==
    CASE v.node.type = "ImportDeclaration" -> ImportDeclarationErrors(v, config)
      [] v.node.type = "CallExpression" -> CallExpressionErrors(v)
      [] v.node.type = "MemberExpression" -> MemberExpressionErrors(v)
      [] OTHER -> <<>>

\* what the visitors push to warnings when the traversal enters one node
VisitWarnings(v) ==
    CASE v.node.type = "MemberExpression" -> MemberExpressionWarnings(v)
      [] v.node.type = "JSXAttribute" -> JSXAttributeWarnings(v)
      [] v.node.type = "JSXOpeningElement" -> JSXOpeningElementWarnings(v)
      [] OTHER -> <<>>

\* the message of the SyntaxError @babel/parser throws
ParseFailure == Msg("Failed to parse code", <<"SyntaxError">>)

validateCodeWithAstKeepingFindings(code, config) ==
    LET visits == Walk(code.ast, "File")
        errors == Concat([i \in 1..Len(visits) |-> VisitErrors(visits[i], config)])
        warnings == Concat([i \in 1..Len(visits) |-> VisitWarnings(visits[i])])
    IN  IF ~code.parseable
        THEN [isValid |-> FALSE, errors |-> errors \o <<ParseFailure>>, warnings |-> warnings]
        ELSE [isValid |-> Len(errors) = 0, errors |-> errors, warnings |-> warnings]

\* export function validateCodeWithAst(code, config)
validateCodeWithAst(code, config) ==
    IF ~code.parseable
    THEN [isValid |-> FALSE, errors |-> <<ParseFailure>>, warnings |-> <<>>]
    ELSE LET visits == Walk(code.ast, "File")
             errors == Concat([i \in 1..Len(visits) |-> VisitErrors(visits[i], config)])
             warnings == Concat([i \in 1..Len(visits) |-> VisitWarnings(visits[i])])
         IN  [isValid |-> Len(errors) = 0, errors |-> errors, warnings |-> warnings]

----------------------------------------------------------------------------
(* security.ts: validateGeneratedCode works on the text.  The text of a    *)
(* source is modelled as the token sequence of its tree; a regular *)
(* expression is matched against adjacent tokens (\s* between them), and   *)
(* the tokens of the model that a pattern's word matches, case ignored and *)
(* unanchored as in the code, are listed per pattern.                      *)

RECURSIVE TokensOf(_)
RECURSIVE TokensOfAll(_)
\* the tokens of a sequence of nodes
TokensOfAll(nodes) == IF nodes = <<>> THEN <<>> ELSE TokensOf(Head(nodes)) \o TokensOfAll(Tail(nodes))

\* the tokens of the text of a node
TokensOf(n) ==
    LET k == n.kids
    IN  CASE n.type = "ImportDeclaration" ->
                IF n.name = "" THEN <<"import", "'source'">>
                ELSE <<"import", n.name, "from", "'source'">>
          [] n.type = "VariableDeclaration" -> <<n.name>> \o TokensOfAll(k) \o <<";">>
          [] n.type = "VariableDeclarator" -> TokensOf(k[1]) \o <<"=">> \o TokensOf(k[2])
          [] n.type = "ExportNamedDeclaration" -> <<"export">> \o TokensOfAll(k)
          [] n.type = "ArrowFunctionExpression" ->
                <<"(">> \o TokensOfAll(SubSeq(k, 1, Len(k) - 1)) \o <<")", "=>">> \o TokensOf(k[Len(k)])
          [] n.type = "BlockStatement" -> <<"{">> \o TokensOfAll(k) \o <<"}">>
          [] n.type = "ReturnStatement" -> <<"return">> \o TokensOfAll(k) \o <<";">>
          [] n.type = "ExpressionStatement" -> TokensOfAll(k) \o <<";">>
          [] n.type = "CallExpression" -> TokensOf(k[1]) \o <<"(">> \o TokensOfAll(Tail(k)) \o <<")">>
          [] n.type = "NewExpression" ->
                <<"new">> \o TokensOf(k[1]) \o <<"(">> \o TokensOfAll(Tail(k)) \o <<")">>
          [] n.type = "MemberExpression" -> TokensOf(k[1]) \o <<".">> \o TokensOf(k[2])
          [] n.type = "AssignmentExpression" -> TokensOf(k[1]) \o <<"=">> \o TokensOf(k[2])
          [] n.type = "Import" -> <<"import">>
          [] n.type = "JSXElement" -> TokensOfAll(k) \o <<"</", k[1].name, ">">>
          [] n.type = "JSXOpeningElement" -> <<"<", n.name>> \o TokensOfAll(k) \o <<">">>
          [] n.type = "JSXAttribute" -> <<n.name, "=">> \o TokensOfAll(k)
          [] n.type = "JSXExpressionContainer" -> <<"{">> \o TokensOfAll(k) \o <<"}">>
          [] n.type = "TemplateLiteral" -> <<n.name, "${">> \o TokensOfAll(k) \o <<"}">>
          [] n.type = "Program" -> TokensOfAll(k)
          [] OTHER -> <<n.name>>

\* the text of a source: the frontmatter block, then the code
Text(code) ==
    (IF code.hasFm THEN <<"---">> \o code.fm \o <<"---">> ELSE <<>>) \o TokensOf(code.ast)

\* tokens that begin with "="
EqTokens == {"=", "=>"}

\* const dangerousPatterns: [the tokens matching each part, error]
DangerousPatterns == <<
    [parts |-> <<{"eval", "retrieval"}, {"("}>>, error |-> "eval() function not allowed"],
    [parts |-> <<{"Function", "function"}, {"("}>>, error |-> "Function constructor not allowed"],
    [parts |-> <<{"require"}, {"("}>>, error |-> "require() not allowed in generated components"],
    [parts |-> <<{"import"}, {"("}>>, error |-> "Dynamic imports not allowed"],
    [parts |-> <<{"process"}, {"."}>>, error |-> "Process access not allowed"],
    [parts |-> <<{"global"}, {"."}>>, error |-> "Global object access not allowed"],
    [parts |-> <<{"window"}, {"."}, {"location"}, EqTokens>>,
     error |-> "Window location manipulation not allowed"],
    [parts |-> <<{"window"}, {"["}, {"'location'"}, {"]"}>>,
     error |-> "Window location manipulation not allowed"],
    [parts |-> <<{"document"}, {"."}, {"cookie"}>>, error |-> "Cookie manipulation not allowed"],
    [parts |-> <<{"localStorage"}, {"."}>>, error |-> "localStorage access not allowed"],
    [parts |-> <<{"sessionStorage"}, {"."}>>, error |-> "sessionStorage access not allowed"],
    [parts |-> <<{"fetch", "prefetch"}, {"("}>>,
     error |-> "Direct fetch calls not allowed - use provided utilities"],
    [parts |-> <<{"XMLHttpRequest"}>>, error |-> "XMLHttpRequest not allowed"],
    [parts |-> <<{"innerHTML", "dangerouslySetInnerHTML"}, EqTokens>>,
     error |-> "innerHTML assignment not allowed"],
    [parts |-> <<{"outerHTML"}, EqTokens>>, error |-> "outerHTML assignment not allowed"],
    [parts |-> <<{"dangerouslySetInnerHTML"}>>, error |-> "dangerouslySetInnerHTML not allowed"],
    [parts |-> <<{"<"}, {"script"}>>, error |-> "Script tags not allowed"],
    [parts |-> <<{"javascript"}, {":"}>>, error |-> "javascript: URLs not allowed"]
>>

\* pattern.test(code)
PatternTest(toks, parts) ==
    \E i \in 1..Len(toks) :
        /\ i + Len(parts) - 1 <= Len(toks)
        /\ \A j \in 1..Len(parts) : toks[i + j - 1] \in parts[j]

\* the lines that start with "import": import declarations, and statements
\* that start with a dynamic import(...)
ImportLines(code) ==
    LET visits == Walk(code.ast, "File")
        isLine(v) ==
            \/ v.node.type = "ImportDeclaration"
            \/ v.node.type = "ExpressionStatement" /\ Head(TokensOf(v.node)) = "import"
    IN  SelectSeq(visits, isLine)

\* const allowedImports of validateGeneratedCode, tested on one import line
ImportLineAllowed(node) ==
    /\ node.type = "ImportDeclaration"
    /\ node.name # ""
    /\ \/ node.str = S_react
       \/ StartsWith(node.str, <<".", "/">>)
       \/ StartsWith(node.str, <<".", ".", "/">>)
       \/ StartsWith(node.str, <<"@", "/">>)

validateGeneratedCodePatternsOnly(code) ==
    LET toks == Text(code)
        patternErrors ==
            Concat([i \in 1..Len(DangerousPatterns) |->
                      IF PatternTest(toks, DangerousPatterns[i].parts)
                      THEN <<Msg(DangerousPatterns[i].error, <<>>)>>
                      ELSE <<>>])
        lines == ImportLines(code)
        importErrors ==
            Concat([i \in 1..Len(lines) |->
                      IF ~ImportLineAllowed(lines[i].node)
                      THEN <<Msg("Potentially unsafe import", lines[i].node.str)>>
                      ELSE <<>>])
    IN  [isValid |-> Len(patternErrors) = 0, errors |-> patternErrors \o importErrors]

\* export function validateGeneratedCode(code)
validateGeneratedCode(code) ==
    LET toks == Text(code)
        patternErrors ==
            Concat([i \in 1..Len(DangerousPatterns) |->
                      IF PatternTest(toks, DangerousPatterns[i].parts)
                      THEN <<Msg(DangerousPatterns[i].error, <<>>)>>
                      ELSE <<>>])
        lines == ImportLines(code)
        importErrors ==
            Concat([i \in 1..Len(lines) |->
                      IF ~ImportLineAllowed(lines[i].node)
                      THEN <<Msg("Potentially unsafe import", lines[i].node.str)>>
                      ELSE <<>>])
        errors == patternErrors \o importErrors
    IN  [isValid |-> Len(errors) = 0, errors |-> errors]

----------------------------------------------------------------------------
(* mdx-auto-fixer.ts *)

\* the FixRecord texts
FixMoved(kind) == Msg("Moved top-level declaration inside component", <<kind>>)
FixKey == Msg("Added unique key to JSX element in map", <<>>)
FixHandler(from, to) == Msg("Converted handler", <<from, to>>)
FixReact == Msg("Added missing React import", <<>>)

\* Fix 1: t.isVariableDeclaration(statement)
IsTopLevelVar(statement) == statement.type = "VariableDeclaration"

\* Fix 1: the test that pushes a statement to exportsToEnhance
IsExportToEnhance(statement) ==
    /\ statement.type = "ExportNamedDeclaration"
    /\ Len(statement.kids) > 0
    /\ statement.kids[1].type = "VariableDeclaration"
    /\ Len(statement.kids[1].kids) > 0
    /\ LET decl == statement.kids[1].kids[1]
       IN  /\ decl.kids[1].type = "Identifier"
           /\ decl.kids[2].type = "ArrowFunctionExpression"

\* Fix 1: the export with topLevelVars inserted at the top of its arrow body
EnhanceExport(mainExport, topLevelVars) ==
    LET arrowFunc == mainExport.kids[1].kids[1].kids[2]
        n == Len(arrowFunc.kids)
        body == arrowFunc.kids[n]
        bodyStatements ==
            IF body.type = "BlockStatement" THEN body.kids ELSE <<Return(body)>>
    IN  [mainExport EXCEPT
            !.kids[1].kids[1].kids[2].kids[n] = Block(topLevelVars \o bodyStatements)]

\* Fix 1: the Program visitor; returns the new program and its fix records
HoistTopLevelVars(program) ==
    LET body == program.kids
        topLevelVars == SelectSeq(body, IsTopLevelVar)
        newBody == SelectSeq(body, LAMBDA st : ~IsTopLevelVar(st))
        hasExport == Some(newBody, IsExportToEnhance)
        first == CHOOSE i \in 1..Len(newBody) :
                    /\ IsExportToEnhance(newBody[i])
                    /\ \A j \in 1..(i - 1) : ~IsExportToEnhance(newBody[j])
        moved == IF Len(topLevelVars) > 0 /\ hasExport
                 THEN [newBody EXCEPT ![first] = EnhanceExport(newBody[first], topLevelVars)]
                 ELSE newBody
    IN  [ast |-> [program EXCEPT !.kids = moved],
         fixes |-> [i \in 1..Len(topLevelVars) |-> FixMoved(topLevelVars[i].name)]]

\* Fix 2: is this node an x.map(callback) call with a function callback
IsMapCall(n) ==
    /\ n.type = "CallExpression"
    /\ n.kids[1].type = "MemberExpression"
    /\ n.kids[1].kids[2].type = "Identifier"
    /\ n.kids[1].kids[2].name = "map"
    /\ Len(n.kids) >= 2
    /\ n.kids[2].type \in {"ArrowFunctionExpression", "FunctionExpression"}

\* Fix 2: the returned JSX element of a map callback: 0 when the body is the
\* element, i when it is the argument of the block's i-th statement, -1 when
\* there is none
ReturnedJsx(callback) ==
    LET body == callback.kids[Len(callback.kids)]
        isJsxReturn(st) ==
            st.type = "ReturnStatement" /\ Len(st.kids) > 0 /\ st.kids[1].type = "JSXElement"
    IN  IF body.type = "JSXElement" THEN 0
        ELSE IF body.type = "BlockStatement" /\ Some(body.kids, isJsxReturn)
        THEN CHOOSE i \in 1..Len(body.kids) :
                /\ isJsxReturn(body.kids[i])
                /\ \A j \in 1..(i - 1) : ~isJsxReturn(body.kids[j])
        ELSE -1

\* Fix 2: the JSX element found by ReturnedJsx
JsxAt(callback, where) ==
    LET body == callback.kids[Len(callback.kids)]
    IN  IF where = 0 THEN body ELSE body.kids[where].kids[1]

HasKeyNever(jsxElement) == FALSE

\* Fix 2: openingElement.attributes.some(key)
HasKey(jsxElement) ==
    Some(jsxElement.kids[1].kids, LAMBDA attr : attr.type = "JSXAttribute" /\ attr.name = "key")

\* Fix 2: the condition under which a key attribute is pushed
NeedsKey(n) ==
    /\ IsMapCall(n)
    /\ ReturnedJsx(n.kids[2]) >= 0
    /\ ~HasKey(JsxAt(n.kids[2], ReturnedJsx(n.kids[2])))
    \* itemParam && indexParam
    /\ Len(n.kids[2].kids) - 1 >= 2

\* Fix 2: keyExpression
KeyExpression(itemParam, indexParam) ==
    IF itemParam.type = "Identifier" /\ indexParam.type = "Identifier"
    THEN Node("TemplateLiteral", "item-", <<>>, <<Id(indexParam.name)>>)
    ELSE IF indexParam.type = "Identifier" THEN Id(indexParam.name)
    ELSE Num("0")

\* Fix 2: the map call with the key attribute pushed
WithKey(n) ==
    LET callback == n.kids[2]
        where == ReturnedJsx(callback)
        last == Len(callback.kids)
        key == Attr("key", JsxExpr(KeyExpression(callback.kids[1], callback.kids[2])))
    IN  IF where = 0
        THEN [n EXCEPT !.kids[2].kids[last].kids[1].kids = @ \o <<key>>]
        ELSE [n EXCEPT !.kids[2].kids[last].kids[where].kids[1].kids[1].kids = @ \o <<key>>]

RECURSIVE AddKeys(_)
\* Fix 2: the CallExpression visitor applied over the tree
AddKeys(n) ==
    LET n2 == IF NeedsKey(n) THEN WithKey(n) ELSE n
    IN  [n2 EXCEPT !.kids = [i \in 1..Len(n2.kids) |-> AddKeys(n2.kids[i])]]

\* Fix 3: const lowercaseHandlers
LowercaseHandlers ==
    [onclick |-> "onClick", onchange |-> "onChange", onsubmit |-> "onSubmit",
     onfocus |-> "onFocus", onblur |-> "onBlur", onkeydown |-> "onKeyDown",
     onkeyup |-> "onKeyUp", onkeypress |-> "onKeyPress",
     onmouseenter |-> "onMouseEnter", onmouseleave |-> "onMouseLeave",
     onmouseover |-> "onMouseOver"]

\* Fix 3: lowercaseHandlers[attrName] is set
IsLowercaseHandler(n) == n.type = "JSXAttribute" /\ n.name \in DOMAIN LowercaseHandlers

RECURSIVE RenameHandlers(_)
\* Fix 3: the JSXAttribute visitor applied over the tree
RenameHandlers(n) ==
    LET n2 == IF IsLowercaseHandler(n) THEN [n EXCEPT !.name = LowercaseHandlers[n.name]] ELSE n
    IN  [n2 EXCEPT !.kids = [i \in 1..Len(n2.kids) |-> RenameHandlers(n2.kids[i])]]

\* the fix records one traversal pushes: rec(node) for each visited node
FixesOf(ast, rec(_)) ==
    LET visits == Walk(ast, "File")
    IN  Concat([i \in 1..Len(visits) |-> rec(visits[i].node)])

\* Fix 4: hasJSX && !hasReactImport
NeedsReactImport(ast) ==
    LET visits == Walk(ast, "File")
    IN  /\ Some(visits, LAMBDA v : v.node.type = "JSXElement")
        /\ ~Some(visits, LAMBDA v : v.node.type = "ImportDeclaration" /\ v.node.str = S_react)

\* if (frontmatter): an empty frontmatter string is falsy
ReattachFrontmatter(code) == code.hasFm /\ code.fm # <<>>

CatchResultKeepingFixes(code) ==
    [code |-> code, fixes |-> HoistTopLevelVars(code.ast).fixes]

\* catch (error): return { code, fixes: [] }
CatchResult(code) == [code |-> code, fixes |-> <<>>]

\* export function autoFixMdx(code)
autoFixMdx(code) ==
    IF ~code.parseable
    THEN CatchResult(code)
    ELSE LET f1 == HoistTopLevelVars(code.ast)
             a2 == AddKeys(f1.ast)
             fixes2 == FixesOf(f1.ast, LAMBDA n : IF NeedsKey(n) THEN <<FixKey>> ELSE <<>>)
             a3 == RenameHandlers(a2)
             fixes3 == FixesOf(a2, LAMBDA n : IF IsLowercaseHandler(n)
                                              THEN <<FixHandler(n.name, LowercaseHandlers[n.name])>>
                                              ELSE <<>>)
             needsReact == NeedsReactImport(a3)
             a4 == IF needsReact
                   THEN [a3 EXCEPT !.kids = <<ImportDecl("React", S_react)>> \o @]
                   ELSE a3
             fixes4 == IF needsReact THEN <<FixReact>> ELSE <<>>
         IN  [code |-> [hasFm |-> ReattachFrontmatter(code),
                        fm |-> IF ReattachFrontmatter(code) THEN code.fm ELSE <<>>,
                        parseable |-> TRUE,
                        ast |-> a4],
              fixes |-> f1.fixes \o fixes2 \o fixes3 \o fixes4]

----------------------------------------------------------------------------
(* The collaborators of generateComponent and the values they exchange *)

\* largest configured maxRetries the model explores
MaxCfgRetries == 3

\* getMdxFromLlm calls the model follows in one run (a run makes at most 5)
MaxGenCalls == 6

\* a variable that has not been assigned yet
Undefined == [undefined |-> TRUE]

\* defaultConfig.allowedImports
DefaultAllowedImports == <<S_react, S_reactDom, S_reactJsx>>

\* <div/>
DivElement == Jsx("div", <<>>, <<>>)

\* export const name = () => { stmts; return <div/>; };
Component(name, stmts) == Export(VarDecl("const", name, Arrow(<<>>, Block(stmts \o <<Return(DivElement)>>))))

FmTitle == <<"title", ":", "'X'">>

\* a text that validates without findings
SrcClean == Source(TRUE, FmTitle, TRUE, <<ImportDecl("React", S_react), Component("X", <<>>)>>)
\* export const X = () => { eval("1"); return <div/>; };
SrcEval == Source(FALSE, <<>>, TRUE, <<Component("X", <<ExprStmt(Call(Id("eval"), <<Str("'1'")>>))>>)>>)
\* a forbidden import and a direct fetch call
SrcFetch ==
    Source(TRUE, FmTitle, TRUE,
           <<ImportDecl("React", S_react), ImportDecl("fs", S_fs),
             Component("X", <<ExprStmt(Call(Id("fetch"), <<Str("'/api'")>>))>>)>>)
\* storage access: a warning of the AST validator, an error of the regex validator
SrcStorage ==
    Source(TRUE, FmTitle, TRUE,
           <<ImportDecl("React", S_react),
             Component("X", <<ExprStmt(Call(Member(Id("localStorage"), "getItem"), <<Str("'k'")>>))>>)>>)
\* a text the parser rejects
SrcBroken == Source(TRUE, FmTitle, FALSE, <<Component("X", <<>>)>>)

\* the texts getMdxFromLlm returns in the model
GenSources == {SrcClean, SrcEval, SrcFetch, SrcStorage, SrcBroken}

\* getMdxFromLlm: resolves with a text or rejects
GenResponses == [ok : {TRUE}, text : GenSources] \cup {[ok |-> FALSE, text |-> Undefined]}

\* bundleMDX: resolves with {code, frontmatter}, or throws an Error with a
\* message, or throws a value that is no Error
BundleResponses ==
    {[ok |-> TRUE, code |-> "bundledA", frontmatter |-> "metaA", isError |-> FALSE, message |-> ""],
     [ok |-> TRUE, code |-> "bundledB", frontmatter |-> "metaB", isError |-> FALSE, message |-> ""],
     [ok |-> FALSE, code |-> "", frontmatter |-> "", isError |-> TRUE, message |-> "diagnosticA"],
     [ok |-> FALSE, code |-> "", frontmatter |-> "", isError |-> TRUE, message |-> "diagnosticB"],
     [ok |-> FALSE, code |-> "", frontmatter |-> "", isError |-> FALSE, message |-> ""]}

\* the configurations a run starts with
Configs ==
    [enableSelfHealing : BOOLEAN,
     maxRetries : {-1} \cup (0..MaxCfgRetries),
     useAstValidation : BOOLEAN,
     useTwoPhaseGeneration : BOOLEAN,
     allowTypescript : {FALSE},
     allowedImports : {DefaultAllowedImports},
     aliases : {{}}]

----------------------------------------------------------------------------
(* index.ts: generateComponent *)

\* what generateComponent has not yet returned or thrown
NoOutcome ==
    [kind |-> "none", site |-> "", errors |-> <<>>, diagnostic |-> "", retries |-> 0,
     code |-> "", frontmatter |-> "", spec |-> ""]

\* throw new Error(...) at one of the throw sites, with what the message carries
Thrown(site, errors, diagnostic, retries) ==
    [kind |-> "throw", site |-> site, errors |-> errors, diagnostic |-> diagnostic,
     retries |-> retries, code |-> "", frontmatter |-> "", spec |-> ""]

ReturnedSource(code, frontmatter, componentSpec) ==
    [kind |-> "return", site |-> "", errors |-> <<>>, diagnostic |-> "", retries |-> 0,
     code |-> "processedMdxSource", frontmatter |-> frontmatter, spec |-> componentSpec]

\* return { code, frontmatter, spec }
Returned(code, frontmatter, componentSpec) ==
    [kind |-> "return", site |-> "", errors |-> <<>>, diagnostic |-> "", retries |-> 0,
     code |-> code, frontmatter |-> frontmatter, spec |-> componentSpec]

\* a prompt given to getMdxFromLlm: the instruction and the feedback appended
Prompt(instruction, feedback, errors, diagnostic) ==
    [instruction |-> instruction, feedback |-> feedback, errors |-> errors,
     diagnostic |-> diagnostic]

SelfHealingEnabledIgnoringMaxRetries(config) == config.enableSelfHealing

\* finalConfig.enableSelfHealing && finalConfig.maxRetries > 0
SelfHealingEnabled(config) == config.enableSelfHealing /\ config.maxRetries > 0

MaxRetriesUncapped(config) == config.maxRetries

MaxRetriesNoLimit(config) == retryCount + 1

MaxRetriesOneMore(config) == Min(config.maxRetries, 2) + 1

\* const maxRetries = Math.min(finalConfig.maxRetries, 2)
MaxRetries(config) == Min(config.maxRetries, 2)

MaxBundleRetriesOffByOne(config) == IF SelfHealingEnabled(config) THEN 3 ELSE 0

MaxBundleRetriesShared(config) == IF SelfHealingEnabled(config) THEN 2 - retryCount ELSE 0

MaxBundleRetriesOnce(config) == IF SelfHealingEnabled(config) THEN 1 ELSE 0

\* const maxBundleRetries = enableSelfHealing && maxRetries > 0 ? 2 : 0
MaxBundleRetries(config) == IF SelfHealingEnabled(config) THEN 2 ELSE 0

\* finalConfig.useAstValidation ? validateCodeWithAst(...) : validateGeneratedCode(...)
Validate(code, config) ==
    IF config.useAstValidation
    THEN validateCodeWithAst(code, config)
    ELSE validateGeneratedCode(code)

ApplyAutoFixSkipped(code) == code

\* const r = autoFixMdx(mdxSource); if (r.fixes.length > 0) mdxSource = r.code
ApplyAutoFix(code) ==
    LET r == autoFixMdx(code)
    IN  IF Len(r.fixes) > 0 THEN r.code ELSE code

\* the first prompt: sanitizedPrompt, or specToImplementationPrompt(spec)
InitialPrompt(config) ==
    Prompt(IF config.useTwoPhaseGeneration THEN "implementationPrompt" ELSE "sanitizedPrompt",
           "none", <<>>, "")

ValidationRetryPromptAlwaysFix(count, report) ==
    Prompt("sanitizedPrompt", "fix-errors", report.errors, "")

\* the prompt of a validation retry: errorContext on retry 1, minimalContext after
ValidationRetryPrompt(count, report) ==
    IF count = 1
    THEN Prompt("sanitizedPrompt", "fix-errors", report.errors, "")
    ELSE Prompt("minimal version of sanitizedPrompt", "minimal", report.errors, "")

BundleRetryPromptWithValidationErrors(count, message) ==
    IF count = 1
    THEN Prompt("sanitizedPrompt", "fix-compilation", validationResult.errors, "")
    ELSE Prompt("minimal version of sanitizedPrompt", "minimal-compilation",
                validationResult.errors, "")

\* the prompt of a bundle retry: bundleErrorContext on retry 1, minimalBundleContext after
BundleRetryPrompt(count, message) ==
    IF count = 1
    THEN Prompt("sanitizedPrompt", "fix-compilation", <<>>, message)
    ELSE Prompt("minimal version of sanitizedPrompt", "minimal-compilation", <<>>, message)

ErrorMessageOfDropped(response) == "Unknown bundling error"

\* bundleError instanceof Error ? bundleError.message : 'Unknown bundling error'
ErrorMessageOf(response) ==
    IF response.isError THEN response.message ELSE "Unknown bundling error"

\* "Ensure frontmatter exists" and "Transpile TypeScript": the text handed to
\* bundleMDX is the source, with the default frontmatter prepended when the
\* text does not start with ---, passed through fixTypeScriptForMDX when
\* allowTypescript is set
Processed(code, config) ==
    [source |-> code, defaultFrontmatter |-> ~code.hasFm, transpiled |-> config.allowTypescript]

----------------------------------------------------------------------------
(* The run of generateComponent, one action per step between its calls *)

\* the variables of the generated text and its reports
textVars == <<mdxSource, validationResult, retryValidation, processedMdxSource>>
\* the loop counters and flags
loopVars == <<retryCount, bundleRetryCount, bundleSuccess, errorMessage>>
\* the history of collaborator calls
callVars == <<lastPrompt, genCalls, compileCalls, valRegens, bundleRegens>>
\* the history of reports
reportVars == <<allErrors, firstReport, bundleLog>>

Init ==
    /\ pc = "start"
    /\ cfg \in Configs
    /\ spec = "undefined"
    /\ mdxSource = Undefined
    /\ validationResult = Undefined
    /\ retryValidation = Undefined
    /\ retryCount = 0
    /\ bundleRetryCount = 0
    /\ bundleSuccess = FALSE
    /\ processedMdxSource = Undefined
    /\ errorMessage = ""
    /\ lastPrompt = Undefined
    /\ outcome = NoOutcome
    /\ genCalls = 0
    /\ compileCalls = 0
    /\ valRegens = 0
    /\ bundleRegens = 0
    /\ allErrors = {}
    /\ firstReport = "none"
    /\ bundleLog = <<>>
    /\ NoFix
    /\ NoRequests
    /\ NoLimiter

\* input validation, configuration, catalog scan and template loading; any of
\* them may throw
Prepare ==
    /\ pc = "start"
    /\ \E ok \in BOOLEAN :
        IF ok
        THEN /\ pc' = IF cfg.useTwoPhaseGeneration THEN "plan" ELSE "generate"
             /\ outcome' = outcome
        ELSE /\ pc' = "failed"
             /\ outcome' = Thrown("input", <<>>, "", 0)
    /\ UNCHANGED <<cfg, fixerVars, requestVars, limiterVars, spec, textVars, loopVars, callVars, reportVars>>

\* spec = await planComponent(...)
Plan ==
    /\ pc = "plan"
    /\ \E ok \in BOOLEAN :
        IF ok
        THEN /\ spec' = "componentSpec"
             /\ pc' = "generate"
             /\ outcome' = outcome
        ELSE /\ spec' = spec
             /\ pc' = "failed"
             /\ outcome' = Thrown("plan", <<>>, "", 0)
    /\ UNCHANGED <<cfg, fixerVars, requestVars, limiterVars, textVars, loopVars, callVars, reportVars>>

\* one await getMdxFromLlm(prompt, ...): the call is counted, and either
\* assigns mdxSource and moves to next, or rejects and ends the run
CallGenerator(prompt, next) ==
    /\ genCalls < MaxGenCalls
    /\ lastPrompt' = prompt
    /\ genCalls' = genCalls + 1
    /\ \E r \in GenResponses :
        IF r.ok
        THEN /\ mdxSource' = r.text
             /\ pc' = next
             /\ outcome' = outcome
        ELSE /\ mdxSource' = mdxSource
             /\ pc' = "failed"
             /\ outcome' = Thrown("generator", <<>>, "", 0)

\* mdxSource = await getMdxFromLlm(sanitizedPrompt | implementationPrompt, ...)
GenerateInitial ==
    /\ pc = "generate"
    /\ CallGenerator(InitialPrompt(cfg), "autofix")
    /\ UNCHANGED <<cfg, fixerVars, requestVars, limiterVars, spec, validationResult, retryValidation, processedMdxSource,
                   loopVars, compileCalls, valRegens, bundleRegens, reportVars>>

\* "Apply automatic fixes for common issues"
AutoFixInitial ==
    /\ pc = "autofix"
    /\ mdxSource' = ApplyAutoFix(mdxSource)
    /\ pc' = "validate"
    /\ UNCHANGED <<cfg, fixerVars, requestVars, limiterVars, spec, validationResult, retryValidation, processedMdxSource,
                   loopVars, callVars, reportVars, outcome>>

\* "Validate the generated code" and the branch on !validationResult.isValid
ValidateInitial ==
    /\ pc = "validate"
    /\ LET report == Validate(mdxSource, cfg)
       IN  /\ validationResult' = report
           /\ firstReport' = IF report.isValid THEN "valid" ELSE "invalid"
           /\ allErrors' = allErrors \cup Range(report.errors)
           /\ IF report.isValid
              THEN pc' = "process" /\ outcome' = outcome
              ELSE IF SelfHealingEnabled(cfg)
              THEN IF 0 < MaxRetries(cfg)
                   THEN pc' = "retry_generate" /\ outcome' = outcome
                   ELSE /\ pc' = "failed"
                        /\ outcome' = Thrown("validation_exhausted", report.errors, "", 0)
              ELSE /\ pc' = "failed"
                   /\ outcome' = Thrown("validation_no_retry", report.errors, "", 0)
    /\ retryCount' = 0
    /\ UNCHANGED <<cfg, fixerVars, requestVars, limiterVars, spec, mdxSource, retryValidation, processedMdxSource,
                   bundleRetryCount, bundleSuccess, errorMessage, callVars, bundleLog>>

\* one iteration of the validation retry loop up to its getMdxFromLlm call
ValidationRetryGenerate ==
    /\ pc = "retry_generate"
    /\ retryCount' = retryCount + 1
    /\ valRegens' = valRegens + 1
    /\ CallGenerator(ValidationRetryPrompt(retryCount + 1, validationResult), "retry_autofix")
    /\ UNCHANGED <<cfg, fixerVars, requestVars, limiterVars, spec, validationResult, retryValidation, processedMdxSource,
                   bundleRetryCount, bundleSuccess, errorMessage, compileCalls,
                   bundleRegens, reportVars>>

\* "Apply auto-fixes after retry"
AutoFixRetry ==
    /\ pc = "retry_autofix"
    /\ mdxSource' = ApplyAutoFix(mdxSource)
    /\ pc' = "retry_validate"
    /\ UNCHANGED <<cfg, fixerVars, requestVars, limiterVars, spec, validationResult, retryValidation, processedMdxSource,
                   loopVars, callVars, reportVars, outcome>>

ValidateRetryNeverLeaves ==
    /\ pc = "retry_validate"
    /\ LET report == Validate(mdxSource, cfg)
       IN  /\ validationResult' = report
           /\ allErrors' = allErrors \cup Range(report.errors)
           /\ IF retryCount < MaxRetries(cfg)
              THEN pc' = "retry_generate" /\ outcome' = outcome
              ELSE IF report.isValid
              THEN pc' = "process" /\ outcome' = outcome
              ELSE /\ pc' = "failed"
                   /\ outcome' = Thrown("validation_exhausted", report.errors, "", retryCount)
    /\ UNCHANGED <<cfg, fixerVars, requestVars, limiterVars, spec, mdxSource, retryValidation,
                   processedMdxSource, loopVars, callVars, firstReport, bundleLog>>

\* "Re-validate", the loop test and the throw after the loop
ValidateRetry ==
    /\ pc = "retry_validate"
    /\ LET report == Validate(mdxSource, cfg)
       IN  /\ validationResult' = report
           /\ allErrors' = allErrors \cup Range(report.errors)
           /\ IF report.isValid
              THEN pc' = "process" /\ outcome' = outcome
              ELSE IF retryCount < MaxRetries(cfg)
              THEN pc' = "retry_generate" /\ outcome' = outcome
              ELSE /\ pc' = "failed"
                   /\ outcome' = Thrown("validation_exhausted", report.errors, "", retryCount)
    /\ UNCHANGED <<cfg, fixerVars, requestVars, limiterVars, spec, mdxSource, retryValidation, processedMdxSource,
                   loopVars, callVars, firstReport, bundleLog>>

\* "Ensure frontmatter exists", "Transpile TypeScript" and the bundle loop's
\* declarations
ProcessSource ==
    /\ pc = "process"
    /\ processedMdxSource' = Processed(mdxSource, cfg)
    /\ bundleSuccess' = FALSE
    /\ bundleRetryCount' = 0
    /\ pc' = "bundle"
    /\ UNCHANGED <<cfg, fixerVars, requestVars, limiterVars, spec, mdxSource, validationResult, retryValidation, retryCount,
                   errorMessage, callVars, reportVars, outcome>>

\* await bundleMDX(...): the try block, and the catch block up to its branch
\* on bundleRetryCount < maxBundleRetries
Bundle ==
    /\ pc = "bundle"
    /\ ~bundleSuccess /\ bundleRetryCount <= MaxBundleRetries(cfg)
    /\ compileCalls' = compileCalls + 1
    /\ \E r \in BundleResponses :
        /\ bundleLog' = Append(bundleLog, r)
        /\ IF r.ok
           THEN /\ bundleSuccess' = TRUE
                /\ errorMessage' = errorMessage
                /\ pc' = "done"
                /\ outcome' = Returned(r.code, r.frontmatter, spec)
           ELSE /\ bundleSuccess' = bundleSuccess
                /\ errorMessage' = ErrorMessageOf(r)
                /\ IF bundleRetryCount < MaxBundleRetries(cfg)
                   THEN pc' = "bundle_generate" /\ outcome' = outcome
                   ELSE /\ pc' = "failed"
                        /\ outcome' = Thrown("compile_exhausted", <<>>, ErrorMessageOf(r),
                                             bundleRetryCount)
    /\ UNCHANGED <<cfg, fixerVars, requestVars, limiterVars, spec, textVars, retryCount, bundleRetryCount, lastPrompt, genCalls,
                   valRegens, bundleRegens, allErrors, firstReport>>

\* the catch block's regeneration up to its getMdxFromLlm call
BundleRetryGenerate ==
    /\ pc = "bundle_generate"
    /\ bundleRetryCount' = bundleRetryCount + 1
    /\ bundleRegens' = bundleRegens + 1
    /\ CallGenerator(BundleRetryPrompt(bundleRetryCount + 1, errorMessage), "bundle_autofix")
    /\ UNCHANGED <<cfg, fixerVars, requestVars, limiterVars, spec, validationResult, retryValidation, processedMdxSource,
                   retryCount, bundleSuccess, errorMessage, compileCalls, valRegens,
                   reportVars>>

\* "Apply auto-fixes after bundle retry"
AutoFixBundleRetry ==
    /\ pc = "bundle_autofix"
    /\ mdxSource' = ApplyAutoFix(mdxSource)
    /\ pc' = "bundle_validate"
    /\ UNCHANGED <<cfg, fixerVars, requestVars, limiterVars, spec, validationResult, retryValidation, processedMdxSource,
                   loopVars, callVars, reportVars, outcome>>

ValidateBundleRetryNested ==
    /\ pc = "bundle_validate"
    /\ LET report == Validate(mdxSource, cfg)
       IN  /\ retryValidation' = report
           /\ allErrors' = allErrors \cup Range(report.errors)
           /\ IF ~report.isValid
              THEN /\ IF bundleRetryCount < MaxBundleRetries(cfg)
                      THEN pc' = "bundle_generate" /\ outcome' = outcome
                      ELSE /\ pc' = "failed"
                           /\ outcome' = Thrown("retry_invalid", report.errors, "",
                                                bundleRetryCount)
                   /\ processedMdxSource' = processedMdxSource
              ELSE /\ pc' = "bundle"
                   /\ outcome' = outcome
                   /\ processedMdxSource' = Processed(mdxSource, cfg)
    /\ UNCHANGED <<cfg, fixerVars, requestVars, limiterVars, spec, mdxSource, validationResult, loopVars, callVars,
                   firstReport, bundleLog>>

ValidateBundleRetryUnchecked ==
    /\ pc = "bundle_validate"
    /\ retryValidation' = Validate(mdxSource, cfg)
    /\ allErrors' = allErrors \cup Range(Validate(mdxSource, cfg).errors)
    /\ pc' = "bundle"
    /\ outcome' = outcome
    /\ processedMdxSource' = Processed(mdxSource, cfg)
    /\ UNCHANGED <<cfg, fixerVars, requestVars, limiterVars, spec, mdxSource, validationResult,
                   loopVars, callVars, firstReport, bundleLog>>

\* "Re-validate and re-transpile for retry"
ValidateBundleRetry ==
    /\ pc = "bundle_validate"
    /\ LET report == Validate(mdxSource, cfg)
       IN  /\ retryValidation' = report
           /\ allErrors' = allErrors \cup Range(report.errors)
           /\ IF ~report.isValid
              THEN /\ pc' = "failed"
                   /\ outcome' = Thrown("retry_invalid", report.errors, "", bundleRetryCount)
                   /\ processedMdxSource' = processedMdxSource
              ELSE /\ pc' = "bundle"
                   /\ outcome' = outcome
                   /\ processedMdxSource' = Processed(mdxSource, cfg)
    /\ UNCHANGED <<cfg, fixerVars, requestVars, limiterVars, spec, mdxSource, validationResult, loopVars, callVars,
                   firstReport, bundleLog>>

\* The throw after the bundle loop ("bundling did not complete") has no action:
\* the loop is left only by bundleSuccess or by a throw inside it.
Next ==
    \/ Prepare
    \/ Plan
    \/ GenerateInitial
    \/ AutoFixInitial
    \/ ValidateInitial
    \/ ValidationRetryGenerate
    \/ AutoFixRetry
    \/ ValidateRetry
    \/ ProcessSource
    \/ Bundle
    \/ BundleRetryGenerate
    \/ AutoFixBundleRetry
    \/ ValidateBundleRetry

Spec == Init /\ [][Next]_vars

\* generateComponent has returned or thrown
Terminated == pc \in {"done", "failed"}

\* the positions of a run
PcValues ==
    {"start", "plan", "generate", "autofix", "validate", "retry_generate", "retry_autofix",
     "retry_validate", "process", "bundle", "bundle_generate", "bundle_autofix",
     "bundle_validate", "done", "failed"}

\* the positions at which the next step awaits getMdxFromLlm
GeneratorPcs == {"generate", "retry_generate", "bundle_generate"}

\* The run moves on: every action of Next changes pc, and the guards of the
\* actions are the position and, at a Generator call, the bound on calls.
Progress ==
    /\ ~Terminated
    /\ pc \in GeneratorPcs => genCalls < MaxGenCalls
    /\ pc' \in PcValues
    /\ pc' # pc

\* Every step of a run is taken once the promise it awaits settles: a run
\* that can move on does.
FairSpec == Spec /\ WF_pc(Progress)

----------------------------------------------------------------------------
(* Properties of the orchestrator *)

\* the self-healing guard as the configuration states it
HealingConfigured == cfg.enableSelfHealing /\ cfg.maxRetries > 0
\* the retry budget of the validation stage
ValidationCap == IF HealingConfigured THEN Min(cfg.maxRetries, 2) ELSE 0
\* the retry budget of the compile stage
CompileCap == IF HealingConfigured THEN 2 ELSE 0
\* the throw sites of generateComponent's own throw statements
StageSites == {"validation_exhausted", "validation_no_retry", "retry_invalid",
               "compile_exhausted"}

\* C1: whatever the Generator and the Compiler answer (a result or an error
\* at each call), every run of generateComponent eventually returns or throws;
\* no run stays in the validation or the compile retry loop forever.
C1_RunTerminates == <>Terminated

\* every step of generateComponent is a Progress step
StepsAreProgress == [][Progress]_vars

\* C1 witness: a run that used both retry loops to their caps has ended
C1_Witness == Terminated /\ valRegens = 2 /\ bundleRegens = 2

C4_CompileBudgetAndFeedback ==
    /\ bundleRegens <= 2
    /\ HealingConfigured /\ outcome.site = "compile_exhausted" => bundleRegens = 2
    /\ HealingConfigured /\ pc = "bundle_generate" => bundleRegens < 2
    /\ pc = "bundle_autofix" =>
        LET failure == bundleLog[Len(bundleLog)]
        IN  /\ ~failure.ok
            /\ lastPrompt.feedback \in {"fix-compilation", "minimal-compilation"}
            /\ failure.isError => lastPrompt.diagnostic = failure.message
            /\ lastPrompt.errors = <<>>

\* C4 witness: the second compile-stage regeneration of a run whose
\* validation stage used its two regenerations, after two different diagnostics
C4_Witness ==
    /\ pc = "bundle_autofix" /\ valRegens = 2 /\ bundleRegens = 2
    /\ bundleLog[1].isError /\ bundleLog[2].isError
    /\ bundleLog[1].message # bundleLog[2].message

\* C5: when the artifact regenerated after a compile failure fails validation,
\* the run fails at once: no Generator call, no Compiler call and no
\* validation retry follows, whatever budget remains.
C5_RetryInvalidIsFatal ==
    [][/\ (pc = "bundle_validate" /\ ~retryValidation'.isValid) =>
            /\ pc' = "failed"
            /\ outcome'.kind = "throw"
            /\ genCalls' = genCalls /\ compileCalls' = compileCalls
            /\ retryCount' = retryCount /\ bundleRetryCount' = bundleRetryCount
       /\ pc = "failed" => UNCHANGED vars]_vars

\* C5 witness: the run failed on the first compile-stage regeneration with
\* budget left in both stages
C5_Witness ==
    /\ pc = "failed" /\ outcome.site = "retry_invalid"
    /\ ~retryValidation.isValid
    /\ bundleRegens = 1 /\ valRegens = 0 /\ cfg.maxRetries >= 1

\* C6: when the validation stage gives up, the failure lists the errors of
\* every attempt of the run, not only those of the last attempt.
C6_ListsAllAttempts ==
    outcome.site = "validation_exhausted" => allErrors \subseteq Range(outcome.errors)

\* C7 as stated: every failure the orchestrator raises is raised only when the
\* retry budget of the failing stage is exhausted (for a failed compile-stage
\* regeneration: the budget of either stage), and contains the findings of the
\* last failed attempt.
C7_OnlyWhenExhausted ==
    outcome.site \in StageSites =>
        /\ outcome.site \in {"validation_exhausted", "validation_no_retry"} =>
                valRegens = ValidationCap
        /\ outcome.site = "compile_exhausted" => bundleRegens = CompileCap
        /\ outcome.site = "retry_invalid" =>
                bundleRegens = CompileCap \/ valRegens = ValidationCap

\* C7 amended: a failure of the validation stage is raised only when
\* that stage's budget is exhausted and carries the errors of the last report;
\* a failure of the compile stage is raised only when its budget is exhausted
\* and carries the last Compiler diagnostic; the failure of a regenerated
\* artifact that does not validate carries the errors of its report.
C7_LastFindings ==
    /\ outcome.site \in {"validation_exhausted", "validation_no_retry"} =>
        /\ valRegens = ValidationCap
        /\ ~validationResult.isValid
        /\ outcome.errors = validationResult.errors /\ outcome.errors # <<>>
    /\ outcome.site = "compile_exhausted" =>
        /\ bundleRegens = CompileCap
        /\ ~bundleLog[Len(bundleLog)].ok
        /\ bundleLog[Len(bundleLog)].isError =>
                outcome.diagnostic = bundleLog[Len(bundleLog)].message
    /\ outcome.site = "retry_invalid" =>
        /\ ~retryValidation.isValid
        /\ outcome.errors = retryValidation.errors /\ outcome.errors # <<>>

\* C7 witness: a compile-stage failure after two regenerations whose last
\* diagnostic differs from the first
C7_Witness ==
    /\ outcome.site = "compile_exhausted" /\ bundleRegens = 2
    /\ bundleLog[1].isError /\ bundleLog[3].isError
    /\ bundleLog[1].message # bundleLog[3].message

\* C8: when the first artifact validates and the first Compiler call succeeds,
\* generateComponent returns the Compiler's code and frontmatter after exactly
\* one Generator call and one Compiler call.
C8_HappyPath ==
    (pc = "done" /\ firstReport = "valid" /\ bundleLog[1].ok) =>
        /\ outcome.kind = "return"
        /\ outcome.code = bundleLog[1].code
        /\ outcome.frontmatter = bundleLog[1].frontmatter
        /\ genCalls = 1 /\ compileCalls = 1
        /\ valRegens = 0 /\ bundleRegens = 0

\* C8 witness: such a run has returned
C8_Witness ==
    pc = "done" /\ firstReport = "valid" /\ bundleLog[1].ok /\ outcome.code = "bundledB"

\* C9: with self-healing disabled (enableSelfHealing false, or maxRetries <= 0)
\* a run makes exactly one Generator call and at most one Compiler call: the
\* first validation failure and the first compile failure are terminal.
C9_NoHealingNoRetry ==
    ~HealingConfigured =>
        /\ genCalls <= 1 /\ compileCalls <= 1
        /\ valRegens = 0 /\ bundleRegens = 0
        /\ pc \in {"autofix", "validate", "process", "bundle", "done"} => genCalls = 1
        /\ firstReport = "invalid" =>
                pc = "failed" /\ outcome.site = "validation_no_retry"
        /\ (bundleLog # <<>> /\ ~bundleLog[1].ok) =>
                pc = "failed" /\ outcome.site = "compile_exhausted"

\* C9 witness: self-healing left enabled with maxRetries = 0, and the first
\* compile failure ended the run
C9_Witness ==
    /\ cfg.enableSelfHealing /\ cfg.maxRetries = 0
    /\ outcome.site = "compile_exhausted" /\ genCalls = 1 /\ compileCalls = 1

----------------------------------------------------------------------------
(* The validators as functions: every source of a bounded family, under    *)
(* every policy of a bounded family, is given to one of the two validators. *)

MaxStmts == 2

EvalCall == Call(Id("eval"), <<Str("'1'")>>)

\* the statements of a component body in the family
ValidatorStatements ==
    {ExprStmt(EvalCall),
     ExprStmt(Call(Member(Id("window"), "eval"), <<Str("'1'")>>)),
     ExprStmt(New(Id("eval"), <<Str("'1'")>>)),
     ExprStmt(Call(Id("setTimeout"), <<Arrow(<<>>, EvalCall)>>)),
     ExprStmt(Jsx("div", <<Attr("onClick", JsxExpr(Arrow(<<>>, EvalCall)))>>, <<>>)),
     ExprStmt(Call(Id("retrieval"), <<Str("'1'")>>)),
     ExprStmt(Call(Id("fetch"), <<Str("'/api'")>>)),
     ExprStmt(Call(Member(Id("localStorage"), "getItem"), <<Str("'k'")>>)),
     ExprStmt(Call(Id("require"), <<Str("'fs'")>>)),
     ExprStmt(Call(ImportCallee, <<Str("'fs'")>>)),
     ExprStmt(New(Id("XMLHttpRequest"), <<>>))}

\* the import sections in the family
ValidatorImports == {<<>>, <<ImportDecl("React", S_react)>>, <<ImportDecl("fs", S_fs)>>}

\* sequences over S of length at most n
SeqsUpTo(S, n) == UNION {[1..k -> S] : k \in 0..n}

\* the sources given to the validators
ValidatorSources ==
    {Source(hasFm, IF hasFm THEN FmTitle ELSE <<>>, parseable, imports \o <<Component("X", stmts)>>) :
        hasFm \in BOOLEAN, parseable \in BOOLEAN,
        imports \in ValidatorImports, stmts \in SeqsUpTo(ValidatorStatements, MaxStmts)}

\* the policies given to the validators
ValidatorConfigs ==
    [enableSelfHealing : {TRUE},
     maxRetries : {1},
     useAstValidation : {TRUE},
     useTwoPhaseGeneration : {FALSE},
     allowTypescript : {FALSE},
     allowedImports : {DefaultAllowedImports, <<>>, <<S_fs, S_lodashStar>>},
     aliases : {{}}]

ValidatorInit ==
    /\ pc = "validator_input"
    /\ cfg \in ValidatorConfigs
    /\ mdxSource \in ValidatorSources
    /\ spec = "undefined"
    /\ validationResult = Undefined
    /\ retryValidation = Undefined
    /\ retryCount = 0
    /\ bundleRetryCount = 0
    /\ bundleSuccess = FALSE
    /\ processedMdxSource = Undefined
    /\ errorMessage = ""
    /\ lastPrompt = Undefined
    /\ outcome = NoOutcome
    /\ genCalls = 0
    /\ compileCalls = 0
    /\ valRegens = 0
    /\ bundleRegens = 0
    /\ allErrors = {}
    /\ firstReport = "none"
    /\ bundleLog = <<>>
    /\ NoFix
    /\ NoRequests
    /\ NoLimiter

\* validationResult = validateCodeWithAst(mdxSource, finalConfig)
ApplyValidateCodeWithAst ==
    /\ pc = "validator_input"
    /\ validationResult' = validateCodeWithAst(mdxSource, cfg)
    /\ pc' = "validateCodeWithAst"
    /\ UNCHANGED <<cfg, fixerVars, requestVars, limiterVars, spec, mdxSource, retryValidation, processedMdxSource, errorMessage,
                   lastPrompt, outcome, loopVars, callVars, reportVars, bundleLog>>

\* validationResult = validateGeneratedCode(mdxSource)
ApplyValidateGeneratedCode ==
    /\ pc = "validator_input"
    /\ validationResult' = validateGeneratedCode(mdxSource)
    /\ pc' = "validateGeneratedCode"
    /\ UNCHANGED <<cfg, fixerVars, requestVars, limiterVars, spec, mdxSource, retryValidation, processedMdxSource, errorMessage,
                   lastPrompt, outcome, loopVars, callVars, reportVars, bundleLog>>

ValidatorNext == ApplyValidateCodeWithAst \/ ApplyValidateGeneratedCode

ValidatorSpec == ValidatorInit /\ [][ValidatorNext]_vars

\* the text of the code has a call eval(...): the word eval, not the property
\* of an object and not the operand of new, followed by an argument list
ContainsEvalCall(code) ==
    LET toks == TokensOf(code.ast)
    IN  \E i \in 1..(Len(toks) - 1) :
            /\ toks[i] = "eval" /\ toks[i + 1] = "("
            /\ i > 1 => toks[i - 1] \notin {".", "new"}

HasTokens(code, first, second) ==
    LET toks == TokensOf(code.ast)
    IN  \E i \in 1..(Len(toks) - 1) : toks[i] = first /\ toks[i + 1] = second

\* the text of the code loads a module dynamically (require(...), import(...))
\* or uses a network primitive directly (fetch(...), new XMLHttpRequest)
UsesLoadingOrNetwork(code) ==
    \/ HasTokens(code, "require", "(")
    \/ HasTokens(code, "import", "(")
    \/ HasTokens(code, "fetch", "(")
    \/ HasTokens(code, "new", "XMLHttpRequest")

\* C11: every source that calls require(...) or import(...), calls fetch(...)
\* or constructs an XMLHttpRequest is rejected by validateCodeWithAst
\* (isValid = FALSE).
C11_LoadingAndNetworkRejected ==
    (pc = "validateCodeWithAst" /\ UsesLoadingOrNetwork(mdxSource)) =>
        validationResult.isValid = FALSE

----------------------------------------------------------------------------
(* The import policy: one import declaration, of every source string of a  *)
(* family, validated under every policy of a family.                        *)

\* the import source strings
ImportSourceStrings ==
    {S_react, S_reactDom, S_reactJsx, S_reactive, S_relUtils, S_aliasUi, S_fs,
     S_lodash, S_lodashGet, S_compBtn}

\* the policies: allow-lists with exact and wildcard entries, with and
\* without a configured alias
ImportConfigs ==
    [enableSelfHealing : {TRUE},
     maxRetries : {1},
     useAstValidation : {TRUE},
     useTwoPhaseGeneration : {FALSE},
     allowTypescript : {FALSE},
     allowedImports : {DefaultAllowedImports, <<>>, <<S_lodash>>, <<S_lodashStar, S_fs>>},
     aliases : {{}, {S_compAlias}}]

\* no run of generateComponent has started
NoRun ==
    /\ spec = "undefined"
    /\ validationResult = Undefined
    /\ retryValidation = Undefined
    /\ retryCount = 0
    /\ bundleRetryCount = 0
    /\ bundleSuccess = FALSE
    /\ processedMdxSource = Undefined
    /\ errorMessage = ""
    /\ lastPrompt = Undefined
    /\ outcome = NoOutcome
    /\ genCalls = 0
    /\ compileCalls = 0
    /\ valRegens = 0
    /\ bundleRegens = 0
    /\ allErrors = {}
    /\ firstReport = "none"
    /\ bundleLog = <<>>

ImportInit ==
    /\ pc = "validator_input"
    /\ cfg \in ImportConfigs
    /\ mdxSource \in {Source(FALSE, <<>>, TRUE, <<ImportDecl("m", source), Component("X", <<>>)>>) :
                        source \in ImportSourceStrings}
    /\ NoRun
    /\ NoFix
    /\ NoRequests
    /\ NoLimiter

ImportNext == ApplyValidateCodeWithAst

ImportSpec == ImportInit /\ [][ImportNext]_vars

\* prefix is an initial part of the string source
IsPrefix(prefix, source) ==
    Len(prefix) <= Len(source) /\ \A i \in 1..Len(prefix) : source[i] = prefix[i]

\* the import source is relative or project-local: a path from here, from
\* the root, or through one of the conventional project prefixes
ProjectLocal(source) ==
    \E prefix \in {<<".">>, <<"/">>, <<"@", "/">>, <<"~", "/">>, <<"#", "/">>} :
        IsPrefix(prefix, source)

\* the import source matches an allow-list entry: exactly, as a sub-path, or
\* through the prefix of an entry that ends with a wildcard
OnAllowList(source, config) ==
    \E i \in 1..Len(config.allowedImports) :
        LET entry == config.allowedImports[i]
        IN  \/ entry = source
            \/ IsPrefix(entry \o <<"/">>, source)
            \/ entry # <<>> /\ entry[Len(entry)] = "*"
                /\ IsPrefix(SubSeq(entry, 1, Len(entry) - 1), source)

\* the import source begins with a configured alias
UnderAlias(source, config) == \E alias \in config.aliases : IsPrefix(alias, source)

\* C12: validateCodeWithAst accepts an import exactly when its source is
\* relative/project-local, begins with a configured alias, or matches an
\* allow-list entry (exactly, as a sub-path, or by wildcard prefix); any other
\* import gives the one error that names the import source.
C12_ImportPolicy ==
    pc = "validateCodeWithAst" =>
        LET source == mdxSource.ast.kids[1].str
            permitted == \/ ProjectLocal(source)
                         \/ UnderAlias(source, cfg)
                         \/ OnAllowList(source, cfg)
        IN  /\ validationResult.isValid <=> permitted
            /\ ~permitted => validationResult.errors = <<Msg("Forbidden import", source)>>
            /\ permitted => validationResult.errors = <<>>

\* C12 witness: a source that only shares a prefix with the allowed 'react'
\* was rejected, under a policy with the default allow-list and an alias
C12_Witness ==
    /\ pc = "validateCodeWithAst"
    /\ mdxSource.ast.kids[1].str = S_reactive
    /\ cfg.allowedImports = DefaultAllowedImports /\ cfg.aliases = {S_compAlias}
    /\ validationResult.errors = <<Msg("Forbidden import", S_reactive)>>

----------------------------------------------------------------------------
(* Warnings in the pipeline *)

\* C13: an artifact whose only finding is storage-API use is accepted by the
\* validation step of generateComponent under either validator: its report
\* is valid, no regeneration follows and the run does not fail on validation.
C13_WarningsNeverBlock ==
    (genCalls = 1 /\ mdxSource = SrcStorage /\ firstReport # "none") =>
        /\ firstReport = "valid"
        /\ valRegens = 0
        /\ pc # "retry_generate"
        /\ outcome.site \notin {"validation_exhausted", "validation_no_retry"}

----------------------------------------------------------------------------
(* The validation reports *)

\* C14: in the report of either validator, for every source and policy,
\* isValid is true exactly when the errors list is empty.
C14_ValidIffNoErrors ==
    pc \in {"validateCodeWithAst", "validateGeneratedCode"} =>
        (validationResult.isValid <=> Len(validationResult.errors) = 0)

\* C14 witness: validateGeneratedCode reported a forbidden import line as its
\* only error, and the report is invalid
C14_Witness ==
    /\ pc = "validateGeneratedCode"
    /\ validationResult.errors = <<Msg("Potentially unsafe import", S_fs)>>
    /\ ~validationResult.isValid

\* C15: for a source that cannot be parsed validateCodeWithAst returns a
\* report: isValid = FALSE, exactly one error, the parse failure, and no
\* warnings.
C15_ParseFailureReport ==
    (pc = "validateCodeWithAst" /\ ~mdxSource.parseable) =>
        /\ validationResult.isValid = FALSE
        /\ Len(validationResult.errors) = 1
        /\ validationResult.errors[1].text = "Failed to parse code"
        /\ validationResult.warnings = <<>>

\* C15 witness: the report of an unparseable source whose text holds an eval
\* call, storage access and a forbidden import
C15_Witness ==
    /\ pc = "validateCodeWithAst" /\ ~mdxSource.parseable
    /\ ContainsEvalCall(mdxSource)
    /\ HasTokens(mdxSource, "localStorage", ".")
    /\ mdxSource.ast.kids[1] = ImportDecl("fs", S_fs)
    /\ validationResult.errors = <<ParseFailure>>

----------------------------------------------------------------------------
(* The auto-fixer as a function: every source of a bounded family is given *)
(* to autoFixMdx, and its output is given to autoFixMdx again.              *)

MaxTopLevelVars == 2

\* const data = 1;  let count = 0;  var total = 2;
TopLevelDeclarations ==
    {VarDecl("const", "data", Num("1")), VarDecl("let", "count", Num("0")),
     VarDecl("var", "total", Num("2"))}

\* sequences of at most n different members of S
DistinctSeqsUpTo(S, n) ==
    {q \in SeqsUpTo(S, n) : \A i, j \in 1..Len(q) : q[i] = q[j] => i = j}

\* items.map((params) => body)
MapCall(params, body) == Call(Member(Id("items"), "map"), <<Arrow(params, body)>>)

\* <Row attrs/>
Row(attrs) == Jsx("Row", attrs, <<>>)

\* <ul attrs>{items.map(...)}</ul>
ListOf(attrs, params, body) == Jsx("ul", attrs, <<JsxExpr(MapCall(params, body))>>)

\* onclick={go}
LowercaseOnclick == Attr("onclick", JsxExpr(Id("go")))

\* the markup a component of the family returns
FixerMarkup ==
    {DivElement,
     ListOf(<<>>, <<Id("item")>>, Row(<<>>)),
     ListOf(<<>>, <<Id("item"), Id("index")>>, Row(<<>>)),
     ListOf(<<>>, <<Id("item"), Id("index")>>, Block(<<Return(Row(<<>>))>>)),
     ListOf(<<>>, <<Id("item")>>, Row(<<Attr("key", JsxExpr(Member(Id("item"), "id")))>>)),
     Jsx("button", <<LowercaseOnclick>>, <<>>),
     ListOf(<<LowercaseOnclick>>, <<Id("item"), Id("index")>>, Row(<<>>))}

\* export function name() { return markup; }
FunctionExport(name, markup) ==
    Export(Node("FunctionDeclaration", name, <<>>, <<Block(<<Return(markup)>>)>>))

\* the forms in which the markup appears in a source
FixerForms == {"arrow", "arrowExpression", "function", "twoArrows", "bare"}

\* the statements that follow the top-level declarations
FormStatements(form, markup) ==
    CASE form = "arrow" ->
            <<Export(VarDecl("const", "X", Arrow(<<>>, Block(<<Return(markup)>>))))>>
      [] form = "arrowExpression" -> <<Export(VarDecl("const", "X", Arrow(<<>>, markup)))>>
      [] form = "function" -> <<FunctionExport("X", markup)>>
      [] form = "twoArrows" ->
            <<Export(VarDecl("const", "X", Arrow(<<>>, Block(<<Return(markup)>>)))),
              Component("Y", <<>>)>>
      [] OTHER -> <<ExprStmt(markup)>>

\* the frontmatter blocks of the family: none, one line, empty
FixerFrontmatters ==
    {[has |-> FALSE, text |-> <<>>], [has |-> TRUE, text |-> FmTitle],
     [has |-> TRUE, text |-> <<>>]}

\* the sources given to autoFixMdx
FixerSources ==
    {Source(fm.has, fm.text, parseable, imports \o decls \o FormStatements(form, markup)) :
        fm \in FixerFrontmatters, parseable \in BOOLEAN,
        imports \in {<<>>, <<ImportDecl("React", S_react)>>},
        decls \in DistinctSeqsUpTo(TopLevelDeclarations, MaxTopLevelVars),
        form \in FixerForms, markup \in FixerMarkup}

FixerInit ==
    /\ pc = "fixer_input"
    /\ mdxSource \in FixerSources
    /\ fixThrows \in BOOLEAN
    /\ fixResult = Undefined
    /\ cfg \in {c \in ValidatorConfigs : c.allowedImports = DefaultAllowedImports}
    /\ NoRun
    /\ NoRequests
    /\ NoLimiter

\* one call autoFixMdx(code): the try block completes, or a step of it throws
\* and the catch block returns
AutoFixCall(code) == IF fixThrows THEN CatchResult(code) ELSE autoFixMdx(code)

\* fixResult = autoFixMdx(mdxSource)
ApplyAutoFixMdx ==
    /\ pc = "fixer_input"
    /\ fixResult' = AutoFixCall(mdxSource)
    /\ pc' = "autoFixMdx"
    /\ UNCHANGED <<cfg, fixThrows, requestVars, limiterVars, spec, textVars, loopVars, callVars, outcome, reportVars>>

\* fixResult = autoFixMdx(fixResult.code)
ApplyAutoFixMdxAgain ==
    /\ pc = "autoFixMdx"
    /\ fixResult' = AutoFixCall(fixResult.code)
    /\ pc' = "autoFixMdx_again"
    /\ UNCHANGED <<cfg, fixThrows, requestVars, limiterVars, spec, textVars, loopVars, callVars, outcome, reportVars>>

FixerNext == ApplyAutoFixMdx \/ ApplyAutoFixMdxAgain

FixerSpec == FixerInit /\ [][FixerNext]_vars

\* C16: when parsing fails or a transformation step throws, autoFixMdx
\* returns the input unchanged with an empty fix list, even when fix records
\* had been pushed before the failure.
C16_FailureReturnsInput ==
    (pc = "autoFixMdx" /\ (~mdxSource.parseable \/ fixThrows)) =>
        /\ fixResult.code = mdxSource
        /\ fixResult.fixes = <<>>

\* C16 witness: a step threw after the hoisting step had pushed two records
C16_Witness ==
    /\ pc = "autoFixMdx" /\ fixThrows /\ mdxSource.parseable
    /\ Len(HoistTopLevelVars(mdxSource.ast).fixes) = 2
    /\ fixResult = [code |-> mdxSource, fixes |-> <<>>]

\* the fix records of a kind in a fix list
FixesWithText(fixes, text) == SelectSeq(fixes, LAMBDA f : f.text = text)

\* C17: for every source, applying autoFixMdx to the code autoFixMdx returned
\* yields an empty fix list, whatever combination of the four defects the
\* source has.
C17_SecondPassFixesNothing ==
    pc = "autoFixMdx_again" => fixResult.fixes = <<>>

\* C17 witness: the first pass fixed all four defects (two declarations
\* moved, a key added, a handler renamed, the React import added), and the
\* second pass fixed nothing
C17_Witness ==
    /\ pc = "autoFixMdx_again" /\ ~fixThrows /\ mdxSource.parseable
    /\ LET first == autoFixMdx(mdxSource).fixes
       IN  /\ Len(FixesWithText(first, FixMoved("const").text)) = 2
           /\ FixKey \in Range(first)
           /\ FixHandler("onclick", "onClick") \in Range(first)
           /\ FixReact \in Range(first)
    /\ fixResult.fixes = <<>>
    /\ fixResult.code = autoFixMdx(mdxSource).code

\* C18: for every source with a frontmatter block, the code autoFixMdx
\* returns has the block, with the content of the input's block unchanged.
C18_FrontmatterKept ==
    (pc = "autoFixMdx" /\ mdxSource.hasFm) =>
        /\ fixResult.code.hasFm
        /\ fixResult.code.fm = mdxSource.fm

\* the exported definitions at the top level of a program
ExportedDefinitions(ast) ==
    SelectSeq(ast.kids, LAMBDA st : st.type = "ExportNamedDeclaration")

\* the statements of the body of an exported function or arrow function
BodyStatements(export) ==
    LET decl == export.kids[1]
    IN  IF decl.type = "FunctionDeclaration" THEN decl.kids[1].kids
        ELSE LET init == decl.kids[1].kids[2]
                 body == init.kids[Len(init.kids)]
             IN  IF body.type = "BlockStatement" THEN body.kids ELSE <<>>

\* C19: for a source with top-level variable declarations and an exported
\* definition, the code autoFixMdx returns has no top-level variable
\* declaration, the body of its first exported definition begins with the
\* declarations in their order, and there is one fix record per declaration.
C19_DeclarationsMoved ==
    LET decls == SelectSeq(mdxSource.ast.kids, IsTopLevelVar)
    IN  (/\ pc = "autoFixMdx" /\ mdxSource.parseable /\ ~fixThrows
         /\ decls # <<>>
         /\ ExportedDefinitions(mdxSource.ast) # <<>>) =>
            LET out == fixResult.code.ast
                body == BodyStatements(ExportedDefinitions(out)[1])
            IN  /\ SelectSeq(out.kids, IsTopLevelVar) = <<>>
                /\ Len(body) >= Len(decls)
                /\ SubSeq(body, 1, Len(decls)) = decls
                /\ Len(FixesWithText(fixResult.fixes, FixMoved("const").text)) = Len(decls)

\* the map calls of a program whose callback returns a JSX element
MapCallsReturningJsx(ast) ==
    SelectSeq(Walk(ast, "File"),
              LAMBDA v : IsMapCall(v.node) /\ ReturnedJsx(v.node.kids[2]) >= 0)

\* C20: for a source with a map call whose callback returns one JSX element
\* without a key, also when the callback declares only the item parameter,
\* every such element in the code autoFixMdx returns has a key attribute and
\* a fix record for the key is in the fix list.
C20_KeysSynthesized ==
    LET returned(v) == JsxAt(v.node.kids[2], ReturnedJsx(v.node.kids[2]))
        keyless == SelectSeq(MapCallsReturningJsx(mdxSource.ast),
                             LAMBDA v : ~HasKey(returned(v)))
    IN  (pc = "autoFixMdx" /\ mdxSource.parseable /\ ~fixThrows /\ keyless # <<>>) =>
            LET calls == MapCallsReturningJsx(fixResult.code.ast)
            IN  /\ \A i \in 1..Len(calls) : HasKey(returned(calls[i]))
                /\ FixKey \in Range(fixResult.fixes)

----------------------------------------------------------------------------
(* Claims about what a run returns and how its attempts follow one another *)

\* the attempts trail a returned value carries: its attempts field, and
\* nothing when the value has no such field
AttemptsTrail(result) ==
    IF "attempts" \in DOMAIN result THEN result.attempts ELSE <<>>

\* C21: a returned (Success) value carries an attempts trail with one entry
\* per validation attempt and per compile attempt of the run.
C21_AttemptsTrailReturned ==
    outcome.kind = "return" =>
        Len(AttemptsTrail(outcome)) = genCalls + compileCalls

----------------------------------------------------------------------------
(* security.ts: RateLimiter *)

\* the clock values and the number of isAllowed calls the model follows
MaxClock == 4
MaxLimiterCalls == 4

\* the identifiers (client addresses) that call
Identifiers == {"ipA", "ipB"}

\* RateLimitConfig
RateLimitConfigs == [windowMs : 1..2, maxRequests : 0..2]

\* this.requests.get(identifier) || []
RequestsOf(limiter, identifier) ==
    IF identifier \in DOMAIN limiter.requests THEN limiter.requests[identifier] ELSE <<>>

\* requests.filter(time => time > windowStart)
ValidRequests(requests, windowStart) == SelectSeq(requests, LAMBDA time : time > windowStart)

isAllowedOffByOne(limiter, identifier, clock) ==
    LET windowStart == clock - limiter.config.windowMs
        validRequests == ValidRequests(RequestsOf(limiter, identifier), windowStart)
    IN  IF Len(validRequests) > limiter.config.maxRequests
        THEN [result |-> FALSE, limiter |-> limiter]
        ELSE [result |-> TRUE,
              limiter |-> [limiter EXCEPT
                             !.requests = (identifier :> Append(validRequests, clock)) @@ @]]

\* isAllowed(identifier) when Date.now() is clock: what it returns, and the
\* limiter after the call
isAllowed(limiter, identifier, clock) ==
    LET windowStart == clock - limiter.config.windowMs
        validRequests == ValidRequests(RequestsOf(limiter, identifier), windowStart)
    IN  IF Len(validRequests) >= limiter.config.maxRequests
        THEN [result |-> FALSE, limiter |-> limiter]
        ELSE [result |-> TRUE,
              limiter |-> [limiter EXCEPT
                             !.requests = (identifier :> Append(validRequests, clock)) @@ @]]

\* new RateLimiter(config), with no call made
LimiterInit ==
    /\ pc = "rateLimiter"
    /\ rateLimiter \in [config : RateLimitConfigs, requests : {<<>>}]
    /\ now = 0
    /\ limiterCalls = <<>>
    /\ cfg = Undefined
    /\ mdxSource = Undefined
    /\ NoRun
    /\ NoFix
    /\ NoRequests

\* time passes
AdvanceClock ==
    /\ now < MaxClock
    /\ now' = now + 1
    /\ UNCHANGED <<pc, cfg, fixerVars, requestVars, spec, textVars, loopVars, callVars,
                   outcome, reportVars, rateLimiter, limiterCalls>>

\* rateLimiter.isAllowed(identifier)
CallIsAllowed ==
    /\ Len(limiterCalls) < MaxLimiterCalls
    /\ \E identifier \in Identifiers :
        LET r == isAllowed(rateLimiter, identifier, now)
        IN  /\ rateLimiter' = r.limiter
            /\ limiterCalls' = Append(limiterCalls, [identifier |-> identifier, time |-> now,
                                                     result |-> r.result])
    /\ UNCHANGED <<pc, cfg, fixerVars, requestVars, spec, textVars, loopVars, callVars,
                   outcome, reportVars, now>>

LimiterNext == AdvanceClock \/ CallIsAllowed

LimiterSpec == LimiterInit /\ [][LimiterNext]_vars

\* the isAllowed calls of one identifier, in order
CallsOf(identifier) == SelectSeq(limiterCalls, LAMBDA c : c.identifier = identifier)

\* the times of the calls of a sequence
TimesOf(callSeq) == [k \in DOMAIN callSeq |-> callSeq[k].time]

\* C23: for every identifier, (a) every window (t, t + windowMs] holds at most
\* maxRequests calls that returned true; (b) the Map holds, for the
\* identifier, exactly the accepted calls that were inside the window at its
\* latest accepted call, so a rejected call records nothing; (c) what a call
\* returns is fixed by the earlier accepted calls of the same identifier alone.
C23_RateLimit ==
    \A identifier \in Identifiers :
        LET windowMs == rateLimiter.config.windowMs
            maxRequests == rateLimiter.config.maxRequests
            mine == CallsOf(identifier)
            accepted == SelectSeq(mine, LAMBDA c : c.result)
        IN  /\ \A t \in (0 - windowMs)..now :
                Cardinality({k \in DOMAIN accepted :
                               t < accepted[k].time /\ accepted[k].time <= t + windowMs})
                    <= maxRequests
            /\ RequestsOf(rateLimiter, identifier) =
                   IF accepted = <<>> THEN <<>>
                   ELSE ValidRequests(TimesOf(accepted),
                                      accepted[Len(accepted)].time - windowMs)
            /\ \A k \in DOMAIN mine :
                mine[k].result <=>
                    Cardinality({j \in 1..(k - 1) :
                                   mine[j].result /\ mine[j].time > mine[k].time - windowMs})
                        < maxRequests

\* C23 witness: one identifier was rejected inside its window and accepted
\* again after it, while the other identifier was accepted in between
C23_Witness ==
    /\ rateLimiter.config.maxRequests = 1
    /\ Len(limiterCalls) = 4
    /\ limiterCalls[1].identifier = "ipA" /\ limiterCalls[1].result
    /\ limiterCalls[2].identifier = "ipA" /\ ~limiterCalls[2].result
    /\ limiterCalls[3].identifier = "ipB" /\ limiterCalls[3].result
    /\ limiterCalls[4].identifier = "ipA" /\ limiterCalls[4].result

----------------------------------------------------------------------------
(* Two invocations of generateComponent on one event loop.  An invocation  *)
(* runs until it awaits a collaborator; another invocation may then run.   *)

\* the invocations
Requests == {1, 2}

\* the bindings of the invocation that is executing: its parameters, the
\* let and const declarations of its body, and its call history
Bindings ==
    [pc |-> pc, cfg |-> cfg, spec |-> spec, mdxSource |-> mdxSource,
     validationResult |-> validationResult, retryValidation |-> retryValidation,
     retryCount |-> retryCount, bundleRetryCount |-> bundleRetryCount,
     bundleSuccess |-> bundleSuccess, processedMdxSource |-> processedMdxSource,
     errorMessage |-> errorMessage, lastPrompt |-> lastPrompt, outcome |-> outcome,
     genCalls |-> genCalls, compileCalls |-> compileCalls, valRegens |-> valRegens,
     bundleRegens |-> bundleRegens, allErrors |-> allErrors, firstReport |-> firstReport,
     bundleLog |-> bundleLog]

\* the bindings of an invocation that has just been called with config
InitialBindings(config) ==
    [pc |-> "start", cfg |-> config, spec |-> "undefined", mdxSource |-> Undefined,
     validationResult |-> Undefined, retryValidation |-> Undefined,
     retryCount |-> 0, bundleRetryCount |-> 0,
     bundleSuccess |-> FALSE, processedMdxSource |-> Undefined,
     errorMessage |-> "", lastPrompt |-> Undefined, outcome |-> NoOutcome,
     genCalls |-> 0, compileCalls |-> 0, valRegens |-> 0,
     bundleRegens |-> 0, allErrors |-> {}, firstReport |-> "none",
     bundleLog |-> <<>>]

ResumedBindingsSharingCounters(saved) ==
    [saved EXCEPT !.retryCount = retryCount, !.bundleRetryCount = bundleRetryCount]

\* what an invocation resumes with after an await: every variable of
\* generateComponent is declared inside the function, so each invocation has
\* its own and finds them as it left them
ResumedBindings(saved) == saved

\* the positions at which generateComponent awaits a collaborator
AwaitPcs == {"start", "plan", "generate", "retry_generate", "bundle", "bundle_generate"}

\* the executing invocation awaits (or has ended) and invocation r continues
Yield(r) ==
    /\ pc \in AwaitPcs \cup {"done", "failed"}
    /\ r \in DOMAIN suspended
    /\ suspended[r].pc \notin {"done", "failed"}
    /\ current' = r
    /\ suspended' = [i \in (DOMAIN suspended \ {r}) \cup {current} |->
                        IF i = current THEN Bindings ELSE suspended[i]]
    /\ LET b == ResumedBindings(suspended[r])
       IN  /\ pc' = b.pc
           /\ cfg' = b.cfg
           /\ spec' = b.spec
           /\ mdxSource' = b.mdxSource
           /\ validationResult' = b.validationResult
           /\ retryValidation' = b.retryValidation
           /\ retryCount' = b.retryCount
           /\ bundleRetryCount' = b.bundleRetryCount
           /\ bundleSuccess' = b.bundleSuccess
           /\ processedMdxSource' = b.processedMdxSource
           /\ errorMessage' = b.errorMessage
           /\ lastPrompt' = b.lastPrompt
           /\ outcome' = b.outcome
           /\ genCalls' = b.genCalls
           /\ compileCalls' = b.compileCalls
           /\ valRegens' = b.valRegens
           /\ bundleRegens' = b.bundleRegens
           /\ allErrors' = b.allErrors
           /\ firstReport' = b.firstReport
           /\ bundleLog' = b.bundleLog
    /\ UNCHANGED <<script, fixerVars, limiterVars>>

\* getMdxFromLlm resolves with text / rejects
GenOk(text) == [ok |-> TRUE, text |-> text]
GenRejects == [ok |-> FALSE, text |-> Undefined]

\* bundleMDX resolves / throws an Error
CompileOk ==
    [ok |-> TRUE, code |-> "bundledA", frontmatter |-> "metaA", isError |-> FALSE, message |-> ""]
CompileError ==
    [ok |-> FALSE, code |-> "", frontmatter |-> "", isError |-> TRUE, message |-> "diagnosticA"]

\* what the Generator answers to the successive calls of one invocation
GenScripts ==
    {<<GenOk(SrcClean), GenOk(SrcClean), GenOk(SrcClean), GenOk(SrcClean), GenOk(SrcClean)>>,
     <<GenOk(SrcEval), GenOk(SrcClean), GenOk(SrcClean), GenOk(SrcClean), GenOk(SrcClean)>>,
     <<GenOk(SrcEval), GenOk(SrcFetch), GenOk(SrcClean), GenOk(SrcClean), GenOk(SrcClean)>>,
     <<GenOk(SrcEval), GenOk(SrcFetch), GenOk(SrcEval), GenOk(SrcEval), GenOk(SrcEval)>>,
     <<GenOk(SrcClean), GenOk(SrcClean), GenOk(SrcEval), GenOk(SrcClean), GenOk(SrcClean)>>,
     <<GenOk(SrcEval), GenRejects, GenOk(SrcClean), GenOk(SrcClean), GenOk(SrcClean)>>}

\* what the Compiler answers to the successive calls of one invocation
CompileScripts ==
    {<<CompileOk, CompileOk, CompileOk>>,
     <<CompileError, CompileOk, CompileOk>>,
     <<CompileError, CompileError, CompileOk>>,
     <<CompileError, CompileError, CompileError>>}

\* the answers of the collaborators to one invocation
Scripts ==
    [prepare : {TRUE}, plan : {TRUE}, gen : GenScripts, bundle : CompileScripts]
    \cup [prepare : BOOLEAN, plan : {FALSE}, gen : {<<GenOk(SrcClean), GenOk(SrcClean),
                                                      GenOk(SrcClean), GenOk(SrcClean),
                                                      GenOk(SrcClean)>>},
          bundle : {<<CompileOk, CompileOk, CompileOk>>}]

\* the answers to the second invocation
OtherScripts ==
    {s \in Scripts :
        /\ s.prepare /\ s.plan
        /\ s.gen[1] = GenOk(SrcEval) /\ s.gen[2] = GenOk(SrcFetch)
        /\ s.bundle[1].ok # s.bundle[2].ok}

\* the configurations of the two invocations
ConcurrentConfigs ==
    {c \in Configs : /\ c.enableSelfHealing /\ c.useAstValidation
                     /\ c.maxRetries \in {1, 2}
                     /\ c.maxRetries = 1 => ~c.useTwoPhaseGeneration}

ConcurrentInit ==
    /\ pc = "start"
    /\ cfg \in ConcurrentConfigs
    /\ mdxSource = Undefined
    /\ NoRun
    /\ current = 1
    /\ suspended \in [{2} -> {InitialBindings(c) : c \in {d \in ConcurrentConfigs :
                                                            ~d.useTwoPhaseGeneration}}]
    /\ script \in {s \in [Requests -> Scripts] : s[2] \in OtherScripts}
    /\ NoFix
    /\ NoLimiter

\* the collaborators answer the executing invocation as its script says
FollowsScript ==
    /\ pc = "start" => (pc' # "failed" <=> script[current].prepare)
    /\ pc = "plan" => (pc' # "failed" <=> script[current].plan)
    /\ pc \in GeneratorPcs =>
        LET answer == script[current].gen[genCalls + 1]
        IN  IF answer.ok
            THEN pc' # "failed" /\ mdxSource' = answer.text
            ELSE pc' = "failed"
    /\ pc = "bundle" => bundleLog'[Len(bundleLog')] = script[current].bundle[compileCalls + 1]

ConcurrentNext ==
    \/ Next /\ FollowsScript
    \/ \E r \in Requests : Yield(r)

ConcurrentSpec == ConcurrentInit /\ [][ConcurrentNext]_vars

----------------------------------------------------------------------------
(* generateComponent run alone, as a function of its configuration and of  *)
(* the answers of its collaborators                                        *)

\* the statements after a text came back from getMdxFromLlm at position
\* stage: auto-fix, validation, and the branch on the report
AfterGeneration(f, stage, text, config) ==
    LET fixed == ApplyAutoFix(text)
        report == Validate(fixed, config)
        g == [f EXCEPT !.mdxSource = fixed]
    IN  IF stage = "generate"
        THEN LET h == [g EXCEPT !.validationResult = report]
             IN  IF report.isValid THEN [h EXCEPT !.pc = "bundle"]
                 ELSE IF ~SelfHealingEnabled(config)
                 THEN [h EXCEPT !.pc = "failed",
                                !.outcome = Thrown("validation_no_retry", report.errors, "", 0)]
                 ELSE IF 0 < MaxRetries(config) THEN [h EXCEPT !.pc = "retry_generate"]
                 ELSE [h EXCEPT !.pc = "failed",
                                !.outcome = Thrown("validation_exhausted", report.errors, "", 0)]
        ELSE IF stage = "retry_generate"
        THEN LET h == [g EXCEPT !.validationResult = report]
             IN  IF report.isValid THEN [h EXCEPT !.pc = "bundle"]
                 ELSE IF h.retryCount < MaxRetries(config) THEN [h EXCEPT !.pc = "retry_generate"]
                 ELSE [h EXCEPT !.pc = "failed",
                                !.outcome = Thrown("validation_exhausted", report.errors, "",
                                                   h.retryCount)]
        ELSE LET h == [g EXCEPT !.retryValidation = report]
             IN  IF report.isValid THEN [h EXCEPT !.pc = "bundle"]
                 ELSE [h EXCEPT !.pc = "failed",
                                !.outcome = Thrown("retry_invalid", report.errors, "",
                                                   h.bundleRetryCount)]

\* the statements after bundleMDX settled with answer
AfterBundle(f, answer, config) ==
    IF answer.ok
    THEN [f EXCEPT !.pc = "done", !.outcome = Returned(answer.code, answer.frontmatter, f.spec)]
    ELSE IF f.bundleRetryCount < MaxBundleRetries(config)
    THEN [f EXCEPT !.pc = "bundle_generate", !.errorMessage = ErrorMessageOf(answer)]
    ELSE [f EXCEPT !.pc = "failed", !.errorMessage = ErrorMessageOf(answer),
                   !.outcome = Thrown("compile_exhausted", <<>>, ErrorMessageOf(answer),
                                      f.bundleRetryCount)]

\* generateComponent from bindings f on, alone, until it has ended or awaits
\* an answer beyond the first g Generator answers and b Compiler answers
RECURSIVE RunAloneFrom(_, _, _, _, _)
RunAloneFrom(f, config, answers, g, b) ==
    IF f.pc \in {"done", "failed"} THEN f
    ELSE IF f.pc = "start"
    THEN IF answers.prepare
         THEN RunAloneFrom([f EXCEPT !.pc = IF config.useTwoPhaseGeneration
                                            THEN "plan" ELSE "generate"],
                           config, answers, g, b)
         ELSE [f EXCEPT !.pc = "failed", !.outcome = Thrown("input", <<>>, "", 0)]
    ELSE IF f.pc = "plan"
    THEN IF answers.plan
         THEN RunAloneFrom([f EXCEPT !.pc = "generate", !.spec = "componentSpec"],
                           config, answers, g, b)
         ELSE [f EXCEPT !.pc = "failed", !.outcome = Thrown("plan", <<>>, "", 0)]
    ELSE IF f.pc = "bundle"
    THEN IF f.compileCalls >= b THEN f
         ELSE RunAloneFrom(AfterBundle([f EXCEPT !.compileCalls = @ + 1],
                                       answers.bundle[f.compileCalls + 1], config),
                           config, answers, g, b)
    ELSE IF f.genCalls >= g THEN f
    ELSE LET answer == answers.gen[f.genCalls + 1]
             called == [f EXCEPT !.genCalls = @ + 1,
                                 !.retryCount = IF f.pc = "retry_generate" THEN @ + 1 ELSE @,
                                 !.bundleRetryCount =
                                     IF f.pc = "bundle_generate" THEN @ + 1 ELSE @]
         IN  IF answer.ok
             THEN RunAloneFrom(AfterGeneration(called, f.pc, answer.text, config),
                               config, answers, g, b)
             ELSE [called EXCEPT !.pc = "failed",
                                 !.outcome = Thrown("generator", <<>>, "", 0)]

\* the run alone up to the g-th Generator answer and the b-th Compiler answer
RunAlone(config, answers, g, b) == RunAloneFrom(InitialBindings(config), config, answers, g, b)

\* the bindings of invocation r, executing or suspended
BindingsOf(r) == IF r = current THEN Bindings ELSE suspended[r]

\* what the claim compares between the concurrent and the solitary run
Observed(f) ==
    [pc |-> f.pc, retryCount |-> f.retryCount, bundleRetryCount |-> f.bundleRetryCount,
     mdxSource |-> f.mdxSource, validationResult |-> f.validationResult,
     retryValidation |-> f.retryValidation, outcome |-> f.outcome]

\* C22: under every interleaving of two invocations, whenever an invocation
\* awaits a collaborator or has ended, its retry counters, current source,
\* validation reports and outcome are those of the same invocation run alone
\* with the same answers.
C22_NoInterference ==
    \A r \in DOMAIN script :
        LET f == BindingsOf(r)
        IN  f.pc \in GeneratorPcs \cup {"bundle", "done", "failed"} =>
                Observed(f) = Observed(RunAlone(f.cfg, script[r], f.genCalls, f.compileCalls))

\* C22 witness: both invocations are inside the validation retry loop at once,
\* the executing one in its second iteration and the other one in its first
C22_Witness ==
    /\ DOMAIN suspended # {}
    /\ pc = "retry_generate" /\ retryCount = 1
    /\ \E r \in DOMAIN suspended :
        suspended[r].pc = "retry_generate" /\ suspended[r].retryCount = 0

----------------------------------------------------------------------------
(* Claims about the order and the content of the attempts of one run *)

\* a validation-stage regeneration has just been requested: the prompt is
\* the one of regeneration number retryCount, and validationResult is still
\* the report of the attempt before it
ValidationRegenerationMade == pc = "retry_autofix"

\* C24 as stated: the first validation-stage regeneration carries the
\* targeted-fix feedback with the errors of the preceding attempt, and the
\* regeneration whose index equals the validation cap carries the minimal
\* instruction instead, for the caps 1 and 2.
C24_FinalIsMinimal ==
    ValidationRegenerationMade =>
        /\ retryCount = 1 =>
            /\ lastPrompt.feedback = "fix-errors"
            /\ lastPrompt.errors = validationResult.errors
        /\ retryCount = ValidationCap => lastPrompt.feedback = "minimal"

\* C24 amended: the strategy follows the index of the regeneration.  The
\* first regeneration carries the targeted-fix feedback and the second one,
\* which exists only under a cap of 2, the minimal instruction; both list the
\* errors of the preceding attempt.
C24_StrategyByIndex ==
    ValidationRegenerationMade =>
        /\ retryCount \in 1..ValidationCap
        /\ lastPrompt.errors = validationResult.errors
        /\ ~validationResult.isValid
        /\ retryCount = 1 =>
            /\ lastPrompt.feedback = "fix-errors"
            /\ lastPrompt.instruction = "sanitizedPrompt"
        /\ retryCount = 2 =>
            /\ lastPrompt.feedback = "minimal"
            /\ lastPrompt.instruction = "minimal version of sanitizedPrompt"
            /\ ValidationCap = 2

\* C24 witness: the second regeneration of a run whose cap is 2 has been
\* requested with the minimal instruction
C24_Witness ==
    /\ ValidationRegenerationMade /\ retryCount = 2 /\ ValidationCap = 2
    /\ lastPrompt.feedback = "minimal"
    /\ lastPrompt.errors # <<>>

\* the positions right after a getMdxFromLlm call, and right after autoFixMdx
AutoFixPcs == {"autofix", "retry_autofix", "bundle_autofix"}
ValidatePcs == {"validate", "retry_validate", "bundle_validate"}

\* the report the step at a validation position writes
ReportWritten == IF pc = "bundle_validate" THEN retryValidation' ELSE validationResult'

\* C25: a Generator call that resolves is followed by the Auto-Fixer on the
\* generated text, and that by the Validator on the text the Auto-Fixer left;
\* neither the Generator nor the Compiler is called in between, and the
\* Validator and the Compiler are reached from nowhere else.
C25_AutoFixThenValidate ==
    [][/\ genCalls' # genCalls =>
            /\ pc \in GeneratorPcs /\ genCalls' = genCalls + 1
            /\ pc' \in AutoFixPcs \cup {"failed"}
            /\ pc' \in AutoFixPcs => mdxSource' \in GenSources
       /\ pc \in AutoFixPcs =>
            LET r == autoFixMdx(mdxSource)
            IN  /\ pc' \in ValidatePcs
                /\ mdxSource' = IF Len(r.fixes) > 0 THEN r.code ELSE mdxSource
                /\ genCalls' = genCalls /\ compileCalls' = compileCalls
       /\ pc \in ValidatePcs =>
            /\ ReportWritten = Validate(mdxSource, cfg)
            /\ mdxSource' = mdxSource
            /\ genCalls' = genCalls /\ compileCalls' = compileCalls
       /\ pc' \in ValidatePcs => pc \in AutoFixPcs
       /\ compileCalls' # compileCalls => pc = "bundle"
       /\ pc' = "bundle" => pc \in {"process", "bundle_validate"}
       /\ pc' = "process" => pc \in {"validate", "retry_validate"}
      ]_vars

\* C25 witness: a text regenerated after a compile failure was changed by the
\* Auto-Fixer and is about to be validated
C25_Witness ==
    /\ pc = "bundle_validate" /\ bundleRegens = 2 /\ compileCalls = 2
    /\ lastPrompt.feedback = "minimal-compilation"
    /\ mdxSource \notin GenSources

----------------------------------------------------------------------------
(* One invocation of generateComponent with stub collaborators: a Generator *)
(* and a Compiler whose successive answers are fixed before the run         *)

\* the answers of the stubs: each Generator answer is a text that validates
\* or a text that does not, each Compiler answer a result or an Error
StubScripts ==
    [prepare : {TRUE}, plan : {TRUE},
     gen : [1..5 -> {GenOk(SrcClean), GenOk(SrcEval)}],
     bundle : [1..3 -> {CompileOk, CompileError}]]

\* the configurations of the stubbed run
StubConfigs ==
    {c \in Configs : /\ c.maxRetries \in 0..2
                     /\ c.useTwoPhaseGeneration => (c.enableSelfHealing /\ c.useAstValidation)}

StubInit ==
    /\ pc = "start"
    /\ cfg \in StubConfigs
    /\ mdxSource = Undefined
    /\ NoRun
    /\ current = 1
    /\ suspended = <<>>
    /\ script \in [{1} -> StubScripts]
    /\ NoFix
    /\ NoLimiter

StubNext == Next /\ FollowsScript

StubSpec == StubInit /\ [][StubNext]_vars

\* the k-th answer of the stub Generator is a text the Validator accepts
StubAnswerValid(k) == Validate(ApplyAutoFix(script[1].gen[k].text), cfg).isValid

\* C26: with a Generator whose every answer is invalid and a validation cap
\* of 1, the run never calls the Compiler, calls the Generator at most twice,
\* and ends after exactly one regeneration with the retry-exhausted failure
\* of the validation stage.
C26_AlwaysInvalidCapOne ==
    (ValidationCap = 1 /\ \A k \in 1..5 : ~StubAnswerValid(k)) =>
        /\ compileCalls = 0
        /\ genCalls <= 2
        /\ pc \notin {"done", "process", "bundle", "bundle_generate"}
        /\ Terminated =>
            /\ genCalls = 2 /\ valRegens = 1 /\ bundleRegens = 0
            /\ outcome = Thrown("validation_exhausted", validationResult.errors, "", 1)

\* C26 witness: such a run has ended
C26_Witness ==
    /\ ValidationCap = 1 /\ \A k \in 1..5 : ~StubAnswerValid(k)
    /\ pc = "failed" /\ genCalls = 2 /\ ~cfg.useAstValidation

\* C27: with a Generator that answers an invalid text and then a valid one,
\* a validation cap of at least 1 and a Compiler that succeeds, the run ends
\* in Success after exactly one regeneration and exactly one Compiler call.
C27_InvalidThenValid ==
    (/\ ValidationCap >= 1
     /\ ~StubAnswerValid(1) /\ StubAnswerValid(2)
     /\ script[1].bundle[1].ok) =>
        /\ genCalls <= 2 /\ compileCalls <= 1
        /\ pc # "failed"
        /\ Terminated =>
            /\ outcome = Returned(script[1].bundle[1].code, script[1].bundle[1].frontmatter, spec)
            /\ genCalls = 2 /\ valRegens = 1 /\ bundleRegens = 0 /\ compileCalls = 1

\* C27 witness: such a run has returned under a cap of 2
C27_Witness ==
    /\ ValidationCap = 2
    /\ ~StubAnswerValid(1) /\ StubAnswerValid(2)
    /\ pc = "done" /\ valRegens = 1 /\ compileCalls = 1

\* C28: when the first text validates, every regenerated text validates and
\* the first two Compiler calls of the run fail, the run makes exactly two
\* regenerate-and-revalidate cycles and three Compiler calls, and ends in
\* Success if the third call succeeds and in the compile-stage failure if not.
C28_TwoCompileFailures ==
    (/\ \A k \in 1..3 : StubAnswerValid(k)
     /\ Len(bundleLog) >= 2 /\ ~bundleLog[1].ok /\ ~bundleLog[2].ok) =>
        /\ valRegens = 0 /\ bundleRegens <= 2 /\ compileCalls <= 3
        /\ compileCalls = 3 => bundleRegens = 2 /\ genCalls = 3 /\ retryValidation.isValid
        /\ Terminated =>
            /\ compileCalls = 3
            /\ IF bundleLog[3].ok
               THEN outcome = Returned(bundleLog[3].code, bundleLog[3].frontmatter, spec)
               ELSE outcome = Thrown("compile_exhausted", <<>>, ErrorMessageOf(bundleLog[3]), 2)

\* C28 witness: such a run has failed at its third Compiler call
C28_Witness ==
    /\ \A k \in 1..3 : StubAnswerValid(k)
    /\ pc = "failed" /\ compileCalls = 3 /\ bundleRegens = 2
    /\ outcome.site = "compile_exhausted"

\* the validation report written last: the one of the validation stage, or
\* the one of the latest compile-stage regeneration
LatestReport == IF bundleRegens = 0 THEN validationResult ELSE retryValidation

\* C29: whenever the Compiler is about to be called, the text it is given
\* is made from the current source, and the latest validation report is the
\* report of that source and is valid; a run that has called the Compiler
\* left the validation stage with a valid report.
C29_CompileOnlyValidated ==
    /\ pc = "bundle" =>
        /\ LatestReport = Validate(mdxSource, cfg)
        /\ LatestReport.isValid
        /\ processedMdxSource = Processed(mdxSource, cfg)
    /\ compileCalls > 0 => validationResult.isValid

\* C29 witness: the Compiler is about to be called for the third time, on a
\* text regenerated after two compile failures
C29_Witness ==
    /\ pc = "bundle" /\ compileCalls = 2 /\ bundleRegens = 2
    /\ valRegens = 2
    /\ retryValidation.isValid

\* the statements inside the bodies of the exported definitions of a program
ExportedBodyStatements(ast) ==
    UNION {Range(BodyStatements(ExportedDefinitions(ast)[i])) :
             i \in DOMAIN ExportedDefinitions(ast)}

\* C30: every top-level variable declaration of the input is in the code
\* autoFixMdx returns, at the top level or inside the body of an exported
\* definition, whether or not the source has an exported arrow function; and
\* there are as many hoisting fix records as declarations found inside an
\* exported body.
C30_NoDeclarationLost ==
    (pc = "autoFixMdx" /\ mdxSource.parseable /\ ~fixThrows) =>
        LET decls == SelectSeq(mdxSource.ast.kids, IsTopLevelVar)
            out == fixResult.code.ast
            atTop == Range(SelectSeq(out.kids, IsTopLevelVar))
            inside == ExportedBodyStatements(out)
            relocated == {i \in DOMAIN decls : decls[i] \in inside /\ decls[i] \notin atTop}
        IN  /\ \A i \in DOMAIN decls : decls[i] \in atTop \cup inside
            /\ Len(FixesWithText(fixResult.fixes, FixMoved("const").text))
                   = Cardinality(relocated)

====
